---------------------------- MODULE Spec2Model ----------------------------
(***************************************************************************)
(* A model of the kobe services: the stake-pool cranker (cranker/),        *)
(* the MEV reward attribution of the writer service (writer-service/) and  *)
(* the steward event indexer (steward-writer-service/).                    *)
(*                                                                         *)
(* Every subsystem has its own specification (SpecCranker, SpecAttrib,     *)
(* SpecListen, SpecBackfill); the variables of the other subsystems stay   *)
(* at their initial value.  The chain RPC, the artifact bucket and the     *)
(* document store are the environment: the result of each call is chosen   *)
(* nondeterministically among the results the call can return.             *)
(***************************************************************************)
EXTENDS Integers, Sequences, FiniteSets, TLC

(***************************************************************************)
(*                        THE STAKE-POOL CRANKER                           *)
(***************************************************************************)

VARIABLES
    dry_run,             \* Config.dry_run
    simulate,            \* Config.simulate
    slack_api_token,     \* Config.slack_api_token.is_some()
    last_update_epoch,   \* stake_pool.last_update_epoch, read at the start of the run
    cr_pc,               \* position of the run inside update_stake_pool
    attempt,             \* wait_for_epoch_rewards_completion: the loop's attempt
    phase,               \* which submission phase is running
    price,               \* compute-unit price of the transactions of the phase
    round,               \* the iteration of `for _ in 1..retry` that is running
    transactions,        \* parallel_execute_transactions: the transactions still to send
    executed_signatures, \* the transactions whose signature is tracked in this round
    send_res,            \* what send_transaction_with_config returned, per transaction
    status_res,          \* what get_signature_status returned, per tracked transaction
    sent,                \* the transactions handed to the cluster in this round
    ever_confirmed,      \* the transactions seen confirmed in this phase
    list_submitted,      \* a send of the list phase has reached the cluster
    final_submitted,     \* a send of the final transaction has reached the cluster
    built_list,          \* the update-list transactions have been constructed
    built_final,         \* a final transaction has been constructed
    retry_error_round,   \* the round in which the last phase gave up (0: none did)
    list_restarts,       \* how often the list phase was started again
    result,              \* the Result of update_stake_pool
    slack_posted         \* the message handed to post_slack_message with a token

crankerVars == <<dry_run, simulate, slack_api_token, last_update_epoch, cr_pc,
                 attempt, phase, price, round, transactions, executed_signatures,
                 send_res, status_res, sent, ever_confirmed, list_submitted,
                 final_submitted, built_list, built_final, retry_error_round,
                 list_restarts, result, slack_posted>>

\* Reward attribution (writer-service).
VARIABLES
    at_pc,                  \* position inside write_mev_claims_info
    at_runs,                \* the runs of write_mev_claims_info started so far
    staker_rewards,         \* the staker_rewards collection
    validator_rewards,      \* the validator_rewards collection
    stake_meta_collection,  \* the downloaded stake-meta artifact
    merkle_tree_collection, \* the downloaded merkle-tree artifact
    stakers_to_write,       \* parse_merkle_tree: the staker rows built
    validators_to_write,    \* parse_merkle_tree: the validator rows built
    at_before,              \* the two collections as they were when the run began
    at_found,               \* the run found a staker row of the target epoch
    at_result               \* how the run ended

attribVars == <<at_pc, at_runs, staker_rewards, validator_rewards,
                stake_meta_collection, merkle_tree_collection, stakers_to_write,
                validators_to_write, at_before, at_found, at_result>>

\* The steward event indexer (steward-writer-service).
VARIABLES
    chain,            \* the program's signatures, oldest first: chain[i] is the slot of signature i
    store,            \* the steward_events collection
    ix_pc,            \* position inside listen / fetch_historical_program_transactions
    ix_dry_run,       \* Args.dry_run
    latest_signature, \* listen: the newest signature of the store (0: none)
    before,           \* the paging cursor (0: None)
    rpc_signatures,   \* the page being processed, in processing order
    processed,        \* the signatures handed to process_transactions, in order
    should_break,     \* backfill: a slot below start_slot has been seen
    start_slot,       \* backfill: Backfill.start_slot
    end_slot,         \* backfill: Backfill.end_slot
    ticks,            \* listen: the interval ticks so far; backfill: the pages requested
    ix_result         \* how the tick or the backfill ended

indexerVars == <<chain, store, ix_pc, ix_dry_run, latest_signature, before,
                 rpc_signatures, processed, should_break, start_slot, end_slot,
                 ticks, ix_result>>

\* The BAM writer (bam-writer-service).
VARIABLES
    bam_pc,                   \* position inside main / BamWriterService::run
    cluster_epoch,            \* the epoch the cluster is in
    past_threshold,           \* the epoch's progress has reached epoch_progress_threshold
    current_epoch,            \* main: the epoch wait_for_epoch_threshold returned
    last_processed_epoch,     \* main: last_processed_epoch
    override_eligible_validators, \* BamWriterService.override_eligible_validators
    override_delegation_lamports, \* BamWriterService.override_delegation_lamports
    bam_validators,           \* the bam_validators collection
    bam_epoch_metrics,        \* the bam_epoch_metrics collection
    bam_run,                  \* run: the values of the run in progress
    bam_log                   \* the runs so far: epoch, what each wrote, how it ended

bamVars == <<bam_pc, cluster_epoch, past_threshold, current_epoch, last_processed_epoch,
             override_eligible_validators, override_delegation_lamports, bam_validators,
             bam_epoch_metrics, bam_run, bam_log>>

\* The argument and the result of a function that is followed on its own.
VARIABLES
    fn_args,    \* the arguments the function is called with
    fn_result   \* its result, <<>> before the call

fnVars == <<fn_args, fn_result>>

\* The writer service's live loop (writer-service) and the validators collection.
VARIABLES
    wr_pc,                  \* where run_live_mode is: "off", "tick", "validators", "mev",
                            \* "hourly", "exited", "crashed"
    wr_epoch,               \* the epoch process_epoch read
    wr_ticks,               \* the iterations of the loop that have begun
    wr_failed,              \* a step of some iteration has failed
    validators_collection,  \* the validators collection: its documents in natural order
    stake_pool_stats,       \* the number of documents of stake_pool_stats
    up_runs,                \* the calls of upsert_to_db made
    up_single               \* the collection after the first call that returned Ok

writerVars == <<wr_pc, wr_epoch, wr_ticks, wr_failed, validators_collection,
                stake_pool_stats, up_runs, up_single>>

\* The cranker's loop over the epochs (cranker, main).
VARIABLES
    cl_pc,             \* where main's loop is: "off", "update", "waiting", "crashed"
    cl_cluster_epoch,  \* the epoch the cluster is in
    cl_epoch,          \* main's `epoch`
    cl_current_epoch,  \* wait_for_next_epoch's current_epoch
    cl_attempts        \* the epochs update_stake_pool has been called with

crankLoopVars == <<cl_pc, cl_cluster_epoch, cl_epoch, cl_current_epoch, cl_attempts>>

otherThanCranker == <<attribVars, indexerVars, bamVars, fnVars, writerVars, crankLoopVars>>
otherThanAttrib == <<crankerVars, indexerVars, bamVars, fnVars, writerVars, crankLoopVars>>
otherThanIndexer == <<crankerVars, attribVars, bamVars, fnVars, writerVars, crankLoopVars>>
otherThanBam == <<crankerVars, attribVars, indexerVars, fnVars, writerVars, crankLoopVars>>
otherThanFn == <<crankerVars, attribVars, indexerVars, bamVars, writerVars, crankLoopVars>>
otherThanWriter == <<crankerVars, attribVars, indexerVars, bamVars, fnVars, crankLoopVars>>
otherThanCrankLoop == <<attribVars, indexerVars, bamVars, fnVars, writerVars>>

vars == <<crankerVars, attribVars, indexerVars, bamVars, fnVars, writerVars, crankLoopVars>>

\* The number of 2-instruction update-list transactions of the run.
NumListTx == 2

\* The epoch the run is started for.
CurEpoch == 5

ListTxs == 1..NumListTx

INITIAL_PRIORITY_FEE == 10000
HIGH_PRIORITY_FEE == 1000000
\* The `retry` argument of every call of parallel_execute_transactions and
\* retry_send_transaction: 250 in the source, run here at a smaller value.
RETRY == 4
\* wait_for_epoch_rewards_completion
MAX_RETRIES == 120

\* The `force` argument update_stake_pool passes.
Force == TRUE

\* A loop `for _ in 1..retry` runs for the values 1, ..., retry - 1.
LoopRounds(retry) == retry - 1

\* parallel_execute_stake_pool_update returns early, before building anything.
UpdateNotRequired(lue, ep, force) == lue = ep /\ ~force

SendResults == {"Ok", "BlockhashNotFound", "AlreadyProcessed", "OtherError"}
StatusResults == {"Confirmed", "TxFailed", "NotFound", "RpcError"}

\* The signature of a transaction is kept in executed_signatures.
Tracked(res) == res \in {"Ok", "BlockhashNotFound", "AlreadyProcessed"}

\* The statuses a signature can have after the grace period.  A transaction
\* the node refused as BlockhashNotFound was not forwarded and cannot land.
StatusesAfter(res) ==
    IF res = "BlockhashNotFound" THEN {"NotFound", "RpcError"} ELSE StatusResults

\* matches!(result, Ok(Some(Ok(())))): the signature leaves executed_signatures.
IsConfirmed(st) == st = "Confirmed"

\* A variant of Remaining that keeps the confirmed signatures too.
RemainingKeepsConfirmed(exec, status) == exec

\* The transactions left for the next round.
Remaining(exec, status) == {t \in exec : ~IsConfirmed(status[t])}

\* parallel_execute_transactions hands every transaction to the cluster,
\* whatever Config.dry_run says.
ListSubmits(dry) == TRUE

\* retry_send_transaction returns Ok(()) at once in dry-run mode.
FinalSkipped(dry) == dry

\* The variables of the subsystems that do not run.
CrankerIdle ==
    /\ dry_run = FALSE
    /\ simulate = FALSE
    /\ slack_api_token = FALSE
    /\ last_update_epoch = CurEpoch
    /\ cr_pc = "off"
    /\ attempt = 0
    /\ phase = "none"
    /\ price = 0
    /\ round = 0
    /\ transactions = {}
    /\ executed_signatures = {}
    /\ send_res = <<>>
    /\ status_res = <<>>
    /\ sent = {}
    /\ ever_confirmed = {}
    /\ list_submitted = FALSE
    /\ final_submitted = FALSE
    /\ built_list = FALSE
    /\ built_final = FALSE
    /\ retry_error_round = 0
    /\ list_restarts = 0
    /\ result = "none"
    /\ slack_posted = "none"

AttribIdle ==
    /\ at_pc = "off"
    /\ at_runs = 0
    /\ staker_rewards = {}
    /\ validator_rewards = {}
    /\ stake_meta_collection = <<>>
    /\ merkle_tree_collection = <<>>
    /\ stakers_to_write = {}
    /\ validators_to_write = {}
    /\ at_before = <<{}, {}>>
    /\ at_found = FALSE
    /\ at_result = "none"

IndexerIdle ==
    /\ chain = <<>>
    /\ store = {}
    /\ ix_pc = "off"
    /\ ix_dry_run = FALSE
    /\ latest_signature = 0
    /\ before = 0
    /\ rpc_signatures = <<>>
    /\ processed = <<>>
    /\ should_break = FALSE
    /\ start_slot = 0
    /\ end_slot = 0
    /\ ticks = 0
    /\ ix_result = "none"

BamIdle ==
    /\ bam_pc = "off"
    /\ cluster_epoch = 0
    /\ past_threshold = FALSE
    /\ current_epoch = 0
    /\ last_processed_epoch = <<>>
    /\ override_eligible_validators = <<>>
    /\ override_delegation_lamports = <<>>
    /\ bam_validators = {}
    /\ bam_epoch_metrics = {}
    /\ bam_run = <<>>
    /\ bam_log = <<>>

FnIdle ==
    /\ fn_args = <<>>
    /\ fn_result = <<>>

WriterIdle ==
    /\ wr_pc = "off"
    /\ wr_epoch = 0
    /\ wr_ticks = 0
    /\ wr_failed = FALSE
    /\ validators_collection = <<>>
    /\ stake_pool_stats = 0
    /\ up_runs = 0
    /\ up_single = <<>>

CrankLoopIdle ==
    /\ cl_pc = "off"
    /\ cl_cluster_epoch = 0
    /\ cl_epoch = 0
    /\ cl_current_epoch = 0
    /\ cl_attempts = <<>>

\* The services that a specification does not follow are off.
IdleButCranker ==
    AttribIdle /\ IndexerIdle /\ BamIdle /\ FnIdle /\ WriterIdle
OthersIdleForCranker == IdleButCranker /\ CrankLoopIdle
OthersIdleForAttrib ==
    CrankerIdle /\ IndexerIdle /\ BamIdle /\ FnIdle /\ WriterIdle /\ CrankLoopIdle
OthersIdleForIndexer ==
    CrankerIdle /\ AttribIdle /\ BamIdle /\ FnIdle /\ WriterIdle /\ CrankLoopIdle
OthersIdleForBam ==
    CrankerIdle /\ AttribIdle /\ IndexerIdle /\ FnIdle /\ WriterIdle /\ CrankLoopIdle
OthersIdleForFn ==
    CrankerIdle /\ AttribIdle /\ IndexerIdle /\ BamIdle /\ WriterIdle /\ CrankLoopIdle
OthersIdleForWriter ==
    CrankerIdle /\ AttribIdle /\ IndexerIdle /\ BamIdle /\ FnIdle /\ CrankLoopIdle

\* main: the Config is built from the arguments, the epoch is fetched and
\* update_stake_pool is entered.
CrankerInit ==
    /\ dry_run \in BOOLEAN
    /\ simulate \in BOOLEAN
    /\ slack_api_token \in BOOLEAN
    /\ last_update_epoch \in {CurEpoch - 1, CurEpoch}
    /\ cr_pc = "wait_rewards"
    /\ attempt = 1
    /\ phase = "none"
    /\ price = 0
    /\ round = 0
    /\ transactions = {}
    /\ executed_signatures = {}
    /\ send_res = <<>>
    /\ status_res = <<>>
    /\ sent = {}
    /\ ever_confirmed = {}
    /\ list_submitted = FALSE
    /\ final_submitted = FALSE
    /\ built_list = FALSE
    /\ built_final = FALSE
    /\ retry_error_round = 0
    /\ list_restarts = 0
    /\ result = "none"
    /\ slack_posted = "none"
    /\ OthersIdleForCranker

\* What a list phase does when it ends in an error (a failed blockhash fetch
\* or TransactionRetryError::RetryError): the initial phase is started again
\* at the high price, once; an error of the high-price phase ends the run.
ListPhaseFails(giveUpRound) ==
    /\ retry_error_round' = giveUpRound
    /\ executed_signatures' = {}
    /\ send_res' = <<>>
    /\ status_res' = <<>>
    /\ sent' = {}
    /\ IF phase = "list_initial"
       THEN /\ phase' = "list_high"
            /\ price' = HIGH_PRIORITY_FEE
            /\ round' = 1
            /\ transactions' = ListTxs
            /\ ever_confirmed' = {}
            /\ list_restarts' = list_restarts + 1
            /\ cr_pc' = "list_send"
            /\ UNCHANGED result
       ELSE /\ result' = "Err"
            /\ cr_pc' = "slack"
            /\ transactions' = {}
            /\ UNCHANGED <<phase, price, round, ever_confirmed, list_restarts>>

\* wait_for_epoch_rewards_completion: one attempt of the polling loop.  A
\* timeout returns the error through `?`, before any Slack message.
CheckEpochRewards ==
    /\ cr_pc = "wait_rewards"
    /\ \E active \in {"false", "true", "error"} :
         IF active = "false"
         THEN /\ cr_pc' = "update"
              /\ attempt' = 0
              /\ UNCHANGED result
         ELSE IF attempt < MAX_RETRIES
         THEN /\ attempt' = attempt + 1
              /\ UNCHANGED <<cr_pc, result>>
         ELSE /\ result' = "Err"
              /\ cr_pc' = "done"
              /\ attempt' = 0
    /\ UNCHANGED <<dry_run, simulate, slack_api_token, last_update_epoch, phase,
                   price, round, transactions, executed_signatures, send_res,
                   status_res, sent, ever_confirmed, list_submitted,
                   final_submitted, built_list, built_final, retry_error_round,
                   list_restarts, slack_posted>>
    /\ UNCHANGED otherThanCranker

\* parallel_execute_stake_pool_update up to the first submission: read the
\* pool, return early when no update is required, build the instructions.
StartUpdate ==
    /\ cr_pc = "update"
    /\ \E rpc \in {"ok", "err"} :
         IF rpc = "err"
         THEN /\ result' = "Err"
              /\ cr_pc' = "slack"
              /\ UNCHANGED <<phase, price, round, transactions, built_list>>
         ELSE IF UpdateNotRequired(last_update_epoch, CurEpoch, Force)
         THEN /\ result' = "Ok"
              /\ cr_pc' = "slack"
              /\ UNCHANGED <<phase, price, round, transactions, built_list>>
         ELSE /\ built_list' = TRUE
              /\ phase' = "list_initial"
              /\ price' = INITIAL_PRIORITY_FEE
              /\ round' = 1
              /\ transactions' = ListTxs
              /\ cr_pc' = "list_send"
              /\ UNCHANGED result
    /\ UNCHANGED <<dry_run, simulate, slack_api_token, last_update_epoch, attempt,
                   executed_signatures, send_res, status_res, sent,
                   ever_confirmed, list_submitted, final_submitted, built_final,
                   retry_error_round, list_restarts, slack_posted>>
    /\ UNCHANGED otherThanCranker

\* parallel_execute_transactions, the sending half of a round: fetch a
\* blockhash, sign every remaining transaction with it and send it with
\* skip_preflight, keeping the signatures that are in flight.  (The run has at
\* most BATCH_SIZE = 250 transactions: one batch a round.)
ListSend ==
    /\ cr_pc = "list_send"
    /\ \E blockhash \in {"ok", "err"} :
         IF blockhash = "err"
         THEN /\ ListPhaseFails(0)
              /\ UNCHANGED list_submitted
         ELSE \E res \in [transactions -> SendResults] :
                /\ send_res' = res
                /\ status_res' = <<>>
                /\ sent' = IF ListSubmits(dry_run) THEN transactions ELSE {}
                /\ list_submitted' = (list_submitted \/ ListSubmits(dry_run))
                /\ executed_signatures' = {t \in transactions : Tracked(res[t])}
                /\ cr_pc' = "list_confirm"
                /\ UNCHANGED <<phase, price, round, transactions, ever_confirmed,
                               retry_error_round, list_restarts, result>>
    /\ UNCHANGED <<dry_run, simulate, slack_api_token, last_update_epoch, attempt,
                   final_submitted, built_list, built_final, slack_posted>>
    /\ UNCHANGED otherThanCranker

\* parallel_execute_transactions, the confirming half of a round: after the
\* 30 s grace period poll every tracked signature, drop the confirmed ones and
\* either return Ok, go to the next round or give up.
ListConfirm ==
    /\ cr_pc = "list_confirm"
    /\ \E st \in [executed_signatures -> StatusResults] :
         /\ \A t \in executed_signatures : st[t] \in StatusesAfter(send_res[t])
         /\ LET left == Remaining(executed_signatures, st)
                done == executed_signatures \ left
            IN  IF left = {}
                THEN /\ cr_pc' = "final_build"
                     /\ executed_signatures' = {}
                     /\ transactions' = {}
                     /\ send_res' = <<>>
                     /\ status_res' = <<>>
                     /\ sent' = {}
                     /\ round' = 0
                     /\ ever_confirmed' = ever_confirmed \cup done
                     /\ UNCHANGED <<phase, price, retry_error_round,
                                    list_restarts, result>>
                ELSE IF round < LoopRounds(RETRY)
                THEN /\ transactions' = left
                     /\ round' = round + 1
                     /\ status_res' = st
                     /\ ever_confirmed' = ever_confirmed \cup done
                     /\ cr_pc' = "list_send"
                     /\ UNCHANGED <<phase, price, executed_signatures, send_res,
                                    sent, retry_error_round, list_restarts, result>>
                ELSE ListPhaseFails(round)
    /\ UNCHANGED <<dry_run, simulate, slack_api_token, last_update_epoch, attempt,
                   list_submitted, final_submitted, built_list, built_final,
                   slack_posted>>
    /\ UNCHANGED otherThanCranker

\* What send_transaction (send, then up to 30 status polls, one a second) and
\* simulate_transaction can return.  simulate_transaction logs a simulated
\* failure and returns Ok(()); only an RPC error is an Err.
FinalResults(sim) ==
    IF sim THEN {"Ok", "RpcError"}
    ELSE {"Confirmed", "SendError", "TxFailed", "StatusRpcError", "NotConfirmed"}

FinalOk(res) == res \in {"Ok", "Confirmed"}

\* A send_transaction call whose transaction was handed to the cluster.
FinalReachedCluster(sim, res) == ~sim /\ res # "SendError"

\* parallel_execute_stake_pool_update: checked_transaction_with_signers builds
\* the final transaction, first at the initial price and, after the initial
\* phase has failed, at the high price.
FinalBuild ==
    /\ cr_pc = "final_build"
    /\ \E blockhash \in {"ok", "err"} :
         IF blockhash = "err"
         THEN /\ result' = "Err"
              /\ cr_pc' = "slack"
              /\ UNCHANGED <<phase, price, round, built_final>>
         ELSE /\ built_final' = TRUE
              /\ phase' = IF phase = "final_initial" THEN "final_high"
                          ELSE "final_initial"
              /\ price' = IF phase = "final_initial" THEN HIGH_PRIORITY_FEE
                          ELSE INITIAL_PRIORITY_FEE
              /\ round' = 1
              /\ cr_pc' = "final_send"
              /\ UNCHANGED result
    /\ UNCHANGED <<dry_run, simulate, slack_api_token, last_update_epoch, attempt,
                   transactions, executed_signatures, send_res, status_res, sent,
                   ever_confirmed, list_submitted, final_submitted, built_list,
                   retry_error_round, list_restarts, slack_posted>>
    /\ UNCHANGED otherThanCranker

\* retry_send_transaction: nothing in dry-run mode, else one iteration of
\* `for _ in 1..retry`.  The last Err of the initial phase leads to the
\* high-price transaction, the last Err of the high-price phase ends the run.
FinalSend ==
    /\ cr_pc = "final_send"
    /\ IF FinalSkipped(dry_run)
       THEN /\ result' = "Ok"
            /\ cr_pc' = "slack"
            /\ round' = 0
            /\ UNCHANGED <<final_submitted, retry_error_round>>
       ELSE \E res \in FinalResults(simulate) :
              /\ final_submitted' = (final_submitted \/ FinalReachedCluster(simulate, res))
              /\ IF FinalOk(res)
                 THEN /\ result' = "Ok"
                      /\ cr_pc' = "slack"
                      /\ round' = 0
                      /\ UNCHANGED retry_error_round
                 ELSE IF round < LoopRounds(RETRY)
                 THEN /\ round' = round + 1
                      /\ UNCHANGED <<cr_pc, result, retry_error_round>>
                 ELSE /\ retry_error_round' = round
                      /\ round' = 0
                      /\ IF phase = "final_initial"
                         THEN /\ cr_pc' = "final_build"
                              /\ UNCHANGED result
                         ELSE /\ result' = "Err"
                              /\ cr_pc' = "slack"
    /\ UNCHANGED <<dry_run, simulate, slack_api_token, last_update_epoch, attempt,
                   phase, price, transactions, executed_signatures, send_res,
                   status_res, sent, ever_confirmed, list_submitted, built_list,
                   built_final, list_restarts, slack_posted>>
    /\ UNCHANGED otherThanCranker

\* The message update_stake_pool hands to post_slack_message.
SlackMessage(res) == IF res = "Ok" THEN "success" ELSE "failure"

\* update_stake_pool: post the terminal message; post_slack_message does
\* nothing without a token, and a failed post is logged and ignored.
PostSlack ==
    /\ cr_pc = "slack"
    /\ slack_posted' = IF slack_api_token THEN SlackMessage(result) ELSE "none"
    /\ cr_pc' = "done"
    /\ UNCHANGED <<dry_run, simulate, slack_api_token, last_update_epoch, attempt,
                   phase, price, round, transactions, executed_signatures,
                   send_res, status_res, sent, ever_confirmed, list_submitted,
                   final_submitted, built_list, built_final, retry_error_round,
                   list_restarts, result>>
    /\ UNCHANGED otherThanCranker

CrankerNext ==
    \/ CheckEpochRewards
    \/ StartUpdate
    \/ ListSend
    \/ ListConfirm
    \/ FinalBuild
    \/ FinalSend
    \/ PostSlack

SpecCranker == CrankerInit /\ [][CrankerNext]_vars

(***************************************************************************)
(* Properties of the cranker.                                              *)
(***************************************************************************)

\* C1: in dry-run mode no send-transaction call reaches the cluster, neither
\* in the list phase nor in the final phase.
C1_DryRunSubmitsNothing ==
    dry_run => (~list_submitted /\ ~final_submitted)

\* C5: every phase starts at price 10_000 and its high-price successor runs
\* at 1_000_000, the list phase is started again at most once, and a phase
\* gives up only when the round numbered `retry` (250 in the source) has
\* failed: the budget is `retry` rounds.
C5_RetryBudget ==
    /\ phase \in {"list_initial", "final_initial"} => price = INITIAL_PRIORITY_FEE
    /\ phase \in {"list_high", "final_high"} => price = HIGH_PRIORITY_FEE
    /\ list_restarts <= 1
    /\ retry_error_round # 0 => retry_error_round = RETRY

\* A round of a list phase, after the first, sends its transactions.
ListResend ==
    /\ cr_pc = "list_send"
    /\ cr_pc' = "list_confirm"
    /\ round > 1

\* C6 as stated: the transactions sent again in the next round are exactly
\* those whose send returned BlockhashNotFound or AlreadyProcessed, or that
\* were sent and are not confirmed after the grace period.
C6_ResentAsStated ==
    [][ListResend =>
         sent' = {t \in sent :
                    \/ send_res[t] \in {"BlockhashNotFound", "AlreadyProcessed"}
                    \/ (send_res[t] = "Ok" /\ status_res[t] # "Confirmed")}]_vars

\* C6, amended: the transactions sent again in the next round of a phase are
\* exactly those whose signature was tracked (the send returned Ok,
\* BlockhashNotFound or AlreadyProcessed) and whose status after the grace
\* period is not a confirmed success; a transaction whose send failed with
\* another error, or that was seen confirmed in this phase, is not among
\* them.
C6_Resent ==
    [][ListResend =>
         /\ sent' = {t \in sent : Tracked(send_res[t]) /\ status_res[t] # "Confirmed"}
         /\ sent' \cap ever_confirmed = {}
         /\ \A t \in sent : send_res[t] = "OtherError" => t \notin sent']_vars

\* C6, its case: a second round has sent some but not all transactions again,
\* one having been confirmed in the first round.
C6_Witness ==
    /\ cr_pc = "list_confirm"
    /\ round = 2
    /\ sent # {}
    /\ sent # ListTxs
    /\ ever_confirmed # {}

\* C25: the list phase reports success, and the final transaction is
\* submitted, only after every update-list transaction of the run has been
\* seen confirmed.
C25_FinalAfterAllListConfirmed ==
    (cr_pc = "final_build" \/ final_submitted) => ListTxs \subseteq ever_confirmed

\* Every transaction that was tracked in the round the list phase succeeded in
\* was confirmed in it: what is left out are the transactions whose send
\* failed before flight.
SuccessConfirmsTracked ==
    [][(cr_pc = "list_confirm" /\ cr_pc' = "final_build")
          => executed_signatures \subseteq ever_confirmed']_vars

\* C7: with last_update_epoch equal to the current epoch the run builds and
\* submits nothing (the cranker's arguments have no way to request force).
C7_NoOpWhenUpToDate ==
    last_update_epoch = CurEpoch =>
        (~built_list /\ ~built_final /\ ~list_submitted /\ ~final_submitted)

\* C8: a run that has ended in failure with a Slack token configured has
\* posted the failure notice.
C8_FailureNotified ==
    (cr_pc = "done" /\ result = "Err" /\ slack_api_token) => slack_posted = "failure"

(***************************************************************************)
(*              REWARD ATTRIBUTION (writer-service)                        *)
(***************************************************************************)

\* Option<T>: None is the empty sequence, Some(x) the sequence of x.
None == <<>>
Some(x) == <<x>>

\* The epoch the attribution is run for.
TargetEpoch == 4

\* The number of leaves a generated tree is drawn from.
MaxLeaves == 3

\* The runs of write_mev_claims_info the service makes.
MaxRuns == 2

\* The number of values of a u32: 2^32 in the source, run at a smaller value
\* that the epochs of the model stay below, as a cluster's epochs stay below 2^32.
U32Values == 1024

\* `x as u32`
AsU32(x) == x % U32Values

TipProgram == "tip_distribution_program"
PriorityFeeProgram == "priority_fee_distribution_program"
OtherProgram == "other_program"
\* Pubkey::default().  A pubkey is a pair of a kind and an index.
DefaultPubkey == <<"default", 0>>

\* The stake-meta artifact's stake_metas: V1 has a tip and a priority-fee
\* distribution account, V2 a tip distribution account only, V3 neither.
StakeMetas ==
    << [validator_vote_account |-> "V1",
        maybe_tip_distribution_meta |->
            Some([tip_distribution_pubkey |-> "TDA1", validator_fee_bps |-> 800]),
        maybe_priority_fee_distribution_meta |->
            Some([priority_fee_distribution_pubkey |-> "PFDA1", validator_fee_bps |-> 500])],
       [validator_vote_account |-> "V2",
        maybe_tip_distribution_meta |->
            Some([tip_distribution_pubkey |-> "TDA2", validator_fee_bps |-> 1000]),
        maybe_priority_fee_distribution_meta |-> None],
       [validator_vote_account |-> "V3",
        maybe_tip_distribution_meta |-> None,
        maybe_priority_fee_distribution_meta |-> None] >>

DistributionAccounts == {"TDA1", "TDA2", "PFDA1"}
DistributionPrograms == {TipProgram, PriorityFeeProgram, OtherProgram}

\* The leaves trees are made of.  Leaf 1 is a validator's own claim (its
\* staker_pubkey is the default pubkey); the amounts are those of the
\* scenario {100, 40, 5}, further leaves count on from there.
LeafAmount(i) == IF i = 1 THEN 100 ELSE IF i = 2 THEN 40 ELSE IF i = 3 THEN 5 ELSE i

Leaf(i, account) ==
    [claimant |-> <<"claimant", i>>,
     claim_status_pubkey |-> <<"claim_status", i, account>>,
     staker_pubkey |-> IF i = 1 THEN DefaultPubkey ELSE <<"staker", i>>,
     withdrawer_pubkey |-> IF i = 1 THEN DefaultPubkey ELSE <<"withdrawer", i>>,
     amount |-> LeafAmount(i)]

RECURSIVE SumLeafAmounts(_)
SumLeafAmounts(ls) ==
    IF ls = {} THEN 0
    ELSE LET i == CHOOSE x \in ls : TRUE IN LeafAmount(i) + SumLeafAmounts(ls \ {i})

\* The leaves `ls` in ascending order.
RECURSIVE LeafSeq(_, _)
LeafSeq(ls, account) ==
    IF ls = {} THEN <<>>
    ELSE LET i == CHOOSE x \in ls : \A y \in ls : x <= y
         IN  <<Leaf(i, account)>> \o LeafSeq(ls \ {i}, account)

\* A generated merkle tree as the generator writes it: max_total_claim is the
\* sum of the amounts of its leaves.
GeneratedMerkleTree(program, account, ls) ==
    [distribution_program |-> program,
     distribution_account |-> account,
     tree_nodes |-> LeafSeq(ls, account),
     max_total_claim |-> SumLeafAmounts(ls)]

GeneratedMerkleTrees ==
    {GeneratedMerkleTree(p, a, ls) :
        p \in DistributionPrograms, a \in DistributionAccounts,
        ls \in SUBSET (1..MaxLeaves)}

\* The generated_merkle_trees of an artifact: up to two trees.
TreeLists ==
    {<<>>} \cup {<<t>> : t \in GeneratedMerkleTrees}
           \cup {<<t, u>> : t \in GeneratedMerkleTrees, u \in GeneratedMerkleTrees}

\* The epochs an artifact can report.
ArtifactEpochs == {TargetEpoch, TargetEpoch + 1}

\* A row of staker_rewards written by an earlier run for epoch e.
EarlierRow(e) ==
    [claimant |-> <<"claimant", 0>>, stake_authority |-> <<"staker", 0>>,
     withdraw_authority |-> <<"withdrawer", 0>>, validator_vote_account |-> "V1",
     epoch |-> e, amount |-> 1, priority_fee_amount |-> None,
     claim_status_account |-> None, priority_fee_claim_status_account |-> None]

\* tda_to_validator: HashMap::from_iter over the stake metas that have a tip
\* distribution meta; of two metas with one key the later stays.
TdaKeys(metas) ==
    {metas[i].maybe_tip_distribution_meta[1].tip_distribution_pubkey :
        i \in {j \in 1..Len(metas) : metas[j].maybe_tip_distribution_meta # None}}

TdaToValidator(metas, target_epoch) ==
    [k \in TdaKeys(metas) |->
        LET i == CHOOSE j \in 1..Len(metas) :
                   /\ metas[j].maybe_tip_distribution_meta # None
                   /\ metas[j].maybe_tip_distribution_meta[1].tip_distribution_pubkey = k
                   /\ \A l \in (j + 1)..Len(metas) :
                        \/ metas[l].maybe_tip_distribution_meta = None
                        \/ metas[l].maybe_tip_distribution_meta[1].tip_distribution_pubkey # k
            m == metas[i]
        IN  [vote_account |-> m.validator_vote_account,
             mev_commission |-> m.maybe_tip_distribution_meta[1].validator_fee_bps,
             priority_fee_commission |->
                 IF m.maybe_priority_fee_distribution_meta = None THEN None
                 ELSE Some(m.maybe_priority_fee_distribution_meta[1].validator_fee_bps),
             epoch |-> target_epoch]]

ValidatorRewardsBuilderDefault ==
    [vote_account |-> None, mev_commission |-> None, priority_fee_commission |-> None,
     epoch |-> None, mev_revenue |-> None, priority_fee_revenue |-> None,
     num_stakers |-> None, claim_status_account |-> None]

StakerRewardsBuilderDefault ==
    [epoch |-> None, claimant |-> None, stake_authority |-> None,
     withdraw_authority |-> None, validator_vote_account |-> None,
     tip_amount |-> None, tip_claim_status_account |-> None,
     priority_fee_amount |-> None, priority_fee_claim_status_account |-> None]

UnwrapOr(opt, d) == IF opt = None THEN d ELSE opt[1]

\* ValidatorRewardsBuilder::build
BuildValidator(b) ==
    [vote_account |-> b.vote_account[1],
     mev_commission |-> b.mev_commission[1],
     priority_fee_commission |-> b.priority_fee_commission,
     epoch |-> b.epoch[1],
     mev_revenue |-> UnwrapOr(b.mev_revenue, 0),
     priority_fee_revenue |-> b.priority_fee_revenue,
     num_stakers |-> UnwrapOr(b.num_stakers, 0),
     claim_status_account |-> b.claim_status_account]

\* StakerRewardsBuilder::build
BuildStaker(b) ==
    [claimant |-> b.claimant[1],
     stake_authority |-> b.stake_authority[1],
     withdraw_authority |-> b.withdraw_authority[1],
     validator_vote_account |-> b.validator_vote_account[1],
     epoch |-> b.epoch[1],
     amount |-> UnwrapOr(b.tip_amount, 0),
     priority_fee_amount |-> b.priority_fee_amount,
     claim_status_account |-> b.tip_claim_status_account,
     priority_fee_claim_status_account |-> b.priority_fee_claim_status_account]

\* HashMap::insert
Insert(m, k, v) == [x \in DOMAIN m \cup {k} |-> IF x = k THEN v ELSE m[x]]

\* HashMap::get(..).to_owned(), or the default
GetOr(m, k, d) == IF k \in DOMAIN m THEN m[k] ELSE d

\* The closure of tree_nodes.iter().for_each for one node of a tree whose
\* program is the tip or the priority-fee program: the claimant's builder is
\* fetched or created, filled and inserted, for every node.
ApplyNode(stakers, node, tree, validator, target_epoch) ==
    LET prev == GetOr(stakers, node.claimant, StakerRewardsBuilderDefault)
        paid == IF tree.distribution_program = TipProgram
                THEN [prev EXCEPT !.tip_amount = Some(node.amount),
                                  !.tip_claim_status_account = Some(node.claim_status_pubkey)]
                ELSE [prev EXCEPT !.priority_fee_amount = Some(node.amount),
                                  !.priority_fee_claim_status_account =
                                      Some(node.claim_status_pubkey)]
    IN  Insert(stakers, node.claimant,
               [paid EXCEPT !.epoch = Some(target_epoch),
                            !.claimant = Some(node.claimant),
                            !.stake_authority = Some(node.staker_pubkey),
                            !.withdraw_authority = Some(node.withdrawer_pubkey),
                            !.validator_vote_account = Some(validator.vote_account)])

RECURSIVE ApplyNodes(_, _, _, _, _)
ApplyNodes(stakers, nodes, tree, validator, target_epoch) ==
    IF nodes = <<>> THEN stakers
    ELSE ApplyNodes(ApplyNode(stakers, Head(nodes), tree, validator, target_epoch),
                    Tail(nodes), tree, validator, target_epoch)

\* The claim-status account of the last node whose staker is the default
\* pubkey, if the tree is a tip tree and has one; else what was there.
ClaimStatusAfter(prev, tree) ==
    LET ns == tree.tree_nodes
        ds == {i \in 1..Len(ns) : ns[i].staker_pubkey = DefaultPubkey}
    IN  IF tree.distribution_program = TipProgram /\ ds # {}
        THEN Some(ns[CHOOSE i \in ds : \A j \in ds : j <= i].claim_status_pubkey)
        ELSE prev

\* The validator's builder after a tree of the tip or priority-fee program.
ValidatorAfterTree(validators, tree, validator, target_epoch) ==
    LET prev == GetOr(validators, validator.vote_account, ValidatorRewardsBuilderDefault)
        n == Len(tree.tree_nodes)
    IN  [prev EXCEPT
           !.num_stakers = IF n > 0 THEN Some(n) ELSE prev.num_stakers,
           !.claim_status_account = ClaimStatusAfter(prev.claim_status_account, tree),
           !.mev_revenue = IF tree.distribution_program = TipProgram
                           THEN Some(tree.max_total_claim) ELSE prev.mev_revenue,
           !.priority_fee_revenue = IF tree.distribution_program = PriorityFeeProgram
                                    THEN Some(tree.max_total_claim)
                                    ELSE prev.priority_fee_revenue,
           !.priority_fee_commission = validator.priority_fee_commission,
           !.mev_commission = Some(validator.mev_commission),
           !.vote_account = Some(validator.vote_account),
           !.epoch = Some(target_epoch)]

\* panic!("Unknown distribution program"): in the closure for a tree with
\* nodes, after it for a tree without.
UnknownProgram(tree) ==
    tree.distribution_program \notin {TipProgram, PriorityFeeProgram}

\* The loop over generated_merkle_trees from tree i on.  A tree whose
\* distribution account is no key of tda_to_validator is skipped.
RECURSIVE ParseTrees(_, _, _, _, _)
ParseTrees(acc, trees, i, tda, target_epoch) ==
    IF acc.outcome # "Ok" \/ i > Len(trees) THEN acc
    ELSE LET tree == trees[i]
         IN  IF tree.distribution_account \notin DOMAIN tda
             THEN ParseTrees(acc, trees, i + 1, tda, target_epoch)
             ELSE IF tda[tree.distribution_account].epoch # target_epoch
             THEN [acc EXCEPT !.outcome = "MalformedMerkleTreeError"]
             ELSE IF UnknownProgram(tree)
             THEN [acc EXCEPT !.outcome = "Panic"]
             ELSE LET validator == tda[tree.distribution_account]
                  IN  ParseTrees(
                        [outcome |-> "Ok",
                         stakers |-> ApplyNodes(acc.stakers, tree.tree_nodes, tree,
                                                validator, target_epoch),
                         validators |-> Insert(acc.validators, validator.vote_account,
                                               ValidatorAfterTree(acc.validators, tree,
                                                                  validator, target_epoch))],
                        trees, i + 1, tda, target_epoch)

\* The two epoch checks at the head of parse_merkle_tree: each is a panic!.
EpochsMatch(stake_meta, merkle, target_epoch) ==
    stake_meta.epoch = target_epoch /\ merkle.epoch = target_epoch

\* parse_merkle_tree up to the two writes: how it ends, and the rows built.
ParseMerkleTree(stake_meta, merkle, target_epoch) ==
    IF ~EpochsMatch(stake_meta, merkle, target_epoch)
    THEN [outcome |-> "Panic", stakers |-> {}, validators |-> {}]
    ELSE LET r == ParseTrees([outcome |-> "Ok", stakers |-> <<>>, validators |-> <<>>],
                             merkle.generated_merkle_trees, 1,
                             TdaToValidator(stake_meta.stake_metas, target_epoch),
                             target_epoch)
         IN  IF r.outcome # "Ok"
             THEN [outcome |-> r.outcome, stakers |-> {}, validators |-> {}]
             ELSE [outcome |-> "Ok",
                   stakers |-> {BuildStaker(r.stakers[k]) : k \in DOMAIN r.stakers},
                   validators |-> {BuildValidator(r.validators[k]) :
                                      k \in DOMAIN r.validators}]

\* A variant of AlreadyWritten that finds no row in any collection.
AlreadyWrittenNever(collection, target_epoch) == FALSE

\* find_one(doc! {"epoch": target_epoch as u32}) on staker_rewards is Some.
AlreadyWritten(collection, target_epoch) ==
    \E r \in collection : r.epoch = AsU32(target_epoch)


\* The service starts with a staker_rewards collection that is empty, holds
\* rows of the target epoch, or holds rows of an earlier epoch.
AttribInit ==
    /\ at_pc = "idle"
    /\ at_runs = 0
    /\ staker_rewards \in {{}, {EarlierRow(TargetEpoch)}, {EarlierRow(TargetEpoch - 1)}}
    /\ validator_rewards = {}
    /\ stake_meta_collection = None
    /\ merkle_tree_collection = None
    /\ stakers_to_write = {}
    /\ validators_to_write = {}
    /\ at_before = <<{}, {}>>
    /\ at_found = FALSE
    /\ at_result = "none"
    /\ OthersIdleForAttrib

\* write_mev_claims_info up to the early exit.  at_found records whether the
\* collection held a row of the target epoch when the run began, at_before
\* what the two collections held.
StartAttribution ==
    /\ at_pc = "idle"
    /\ at_runs < MaxRuns
    /\ at_runs' = at_runs + 1
    /\ at_found' = (\E r \in staker_rewards : r.epoch = TargetEpoch)
    /\ at_before' = <<staker_rewards, validator_rewards>>
    /\ stake_meta_collection' = None
    /\ merkle_tree_collection' = None
    /\ stakers_to_write' = {}
    /\ validators_to_write' = {}
    /\ \E find_one_ok \in BOOLEAN :
         IF ~find_one_ok
         THEN at_result' = "DbError" /\ at_pc' = "idle"
         ELSE IF AlreadyWritten(staker_rewards, TargetEpoch)
         THEN at_result' = "Ok" /\ at_pc' = "idle"
         ELSE at_result' = "none" /\ at_pc' = "fetch"
    /\ UNCHANGED <<staker_rewards, validator_rewards>>
    /\ UNCHANGED otherThanAttrib

\* get_file_uris or a download fails and the run ends with the error.
FetchFails ==
    /\ at_pc = "fetch"
    /\ at_result' = "FetchError"
    /\ at_pc' = "idle"
    /\ UNCHANGED <<at_runs, staker_rewards, validator_rewards, stake_meta_collection,
                   merkle_tree_collection, stakers_to_write, validators_to_write,
                   at_before, at_found>>
    /\ UNCHANGED otherThanAttrib

\* Both artifacts are downloaded and deserialized.
Fetch ==
    /\ at_pc = "fetch"
    /\ \E se \in ArtifactEpochs, me \in ArtifactEpochs, trees \in TreeLists :
         /\ stake_meta_collection' = Some([epoch |-> se, stake_metas |-> StakeMetas])
         /\ merkle_tree_collection' =
                Some([epoch |-> me, generated_merkle_trees |-> trees])
    /\ at_pc' = "parse"
    /\ UNCHANGED <<at_runs, staker_rewards, validator_rewards, stakers_to_write,
                   validators_to_write, at_before, at_found, at_result>>
    /\ UNCHANGED otherThanAttrib

\* parse_merkle_tree up to the writes.  A panic ends the process.
Parse ==
    /\ at_pc = "parse"
    /\ LET r == ParseMerkleTree(stake_meta_collection[1], merkle_tree_collection[1],
                                TargetEpoch)
       IN  IF r.outcome = "Ok"
           THEN /\ stakers_to_write' = r.stakers
                /\ validators_to_write' = r.validators
                /\ at_pc' = "write_stakers"
                /\ UNCHANGED at_result
           ELSE /\ at_result' = r.outcome
                /\ at_pc' = IF r.outcome = "Panic" THEN "crashed" ELSE "idle"
                /\ UNCHANGED <<stakers_to_write, validators_to_write>>
    /\ UNCHANGED <<at_runs, staker_rewards, validator_rewards, stake_meta_collection,
                   merkle_tree_collection, at_before, at_found>>
    /\ UNCHANGED otherThanAttrib

\* write_to_db(&staker_collection, &stakers_to_write).await?
WriteStakers ==
    /\ at_pc = "write_stakers"
    /\ \E insert_many_ok \in BOOLEAN :
         IF insert_many_ok
         THEN /\ staker_rewards' = staker_rewards \cup stakers_to_write
              /\ at_pc' = "write_validators"
              /\ UNCHANGED at_result
         ELSE /\ at_result' = "DbError"
              /\ at_pc' = "idle"
              /\ UNCHANGED staker_rewards
    /\ UNCHANGED <<at_runs, validator_rewards, stake_meta_collection,
                   merkle_tree_collection, stakers_to_write, validators_to_write,
                   at_before, at_found>>
    /\ UNCHANGED otherThanAttrib

\* write_to_db(&validator_collection, &validators_to_write).await?; Ok(())
WriteValidators ==
    /\ at_pc = "write_validators"
    /\ \E insert_many_ok \in BOOLEAN :
         IF insert_many_ok
         THEN /\ validator_rewards' = validator_rewards \cup validators_to_write
              /\ at_result' = "Ok"
         ELSE /\ at_result' = "DbError"
              /\ UNCHANGED validator_rewards
    /\ at_pc' = "idle"
    /\ UNCHANGED <<at_runs, staker_rewards, stake_meta_collection,
                   merkle_tree_collection, stakers_to_write, validators_to_write,
                   at_before, at_found>>
    /\ UNCHANGED otherThanAttrib

AttribNext ==
    \/ StartAttribution
    \/ FetchFails
    \/ Fetch
    \/ Parse
    \/ WriteStakers
    \/ WriteValidators

SpecAttrib == AttribInit /\ [][AttribNext]_vars

\* The tip amounts of a set of staker rows, summed.
RECURSIVE SumAmounts(_)
SumAmounts(rows) ==
    IF rows = {} THEN 0
    ELSE LET r == CHOOSE x \in rows : TRUE IN r.amount + SumAmounts(rows \ {r})

\* The trees of the run's merkle-tree artifact.
FetchedTrees == merkle_tree_collection[1].generated_merkle_trees

\* The artifacts have been parsed and hold tip-distribution trees only.
ParsedTipTreesOnly ==
    /\ at_pc = "write_stakers"
    /\ \A i \in 1..Len(FetchedTrees) : FetchedTrees[i].distribution_program = TipProgram

\* The amount of the validator's own leaf in a tree, 0 if it has none.
ValidatorLeafAmount(tree) ==
    LET ds == {i \in 1..Len(tree.tree_nodes) :
                 tree.tree_nodes[i].staker_pubkey = DefaultPubkey}
    IN  IF ds = {} THEN 0 ELSE tree.tree_nodes[CHOOSE i \in ds : TRUE].amount

\* C2: for a tip-distribution tree of a validator, the leaf whose staker is
\* the default pubkey yields no staker row and every other leaf yields one: the
\* tree with leaves {100 (default staker), 40, 5} yields exactly two rows, of
\* amounts 40 and 5, and the rows' amounts sum to max_total_claim less the
\* amount of the validator's leaf.
C2_ValidatorLeafNotEmitted ==
    ParsedTipTreesOnly =>
        /\ \A r \in stakers_to_write : r.stake_authority # DefaultPubkey
        /\ FetchedTrees = <<GeneratedMerkleTree(TipProgram, "TDA1", {1, 2, 3})>> =>
             /\ Cardinality(stakers_to_write) = 2
             /\ {r.amount : r \in stakers_to_write} = {40, 5}
        /\ (Len(FetchedTrees) = 1 /\ FetchedTrees[1].distribution_account \in {"TDA1", "TDA2"}) =>
             SumAmounts(stakers_to_write) =
                 FetchedTrees[1].max_total_claim - ValidatorLeafAmount(FetchedTrees[1])

\* C3: a run for an epoch whose rows staker_rewards already holds writes
\* nothing to staker_rewards or validator_rewards and goes no further than
\* the look-up.
C3_RerunIsNoOp ==
    at_found =>
        /\ staker_rewards = at_before[1]
        /\ validator_rewards = at_before[2]
        /\ at_pc = "idle"
        /\ stakers_to_write = {} /\ validators_to_write = {}

\* A second run that found the rows the first run wrote and returned Ok.
C3_Witness ==
    /\ at_found
    /\ at_runs = 2
    /\ at_pc = "idle"
    /\ at_result = "Ok"
    /\ Cardinality(staker_rewards) >= 2
    /\ validator_rewards # {}

\* A run has ended after fetching artifacts of which one reports an epoch other
\* than the target epoch.
EndedOnEpochMismatch ==
    /\ at_pc \in {"idle", "crashed"}
    /\ Len(stake_meta_collection) = 1
    /\ Len(merkle_tree_collection) = 1
    /\ ~EpochsMatch(stake_meta_collection[1], merkle_tree_collection[1], TargetEpoch)

\* C4: when the stake-meta or the merkle-tree artifact reports an epoch other
\* than the target epoch, the run fails with MalformedMerkleTreeError and
\* writes nothing to the store.
C4_MismatchIsMalformedError ==
    EndedOnEpochMismatch =>
        /\ at_result = "MalformedMerkleTreeError"
        /\ staker_rewards = at_before[1]
        /\ validator_rewards = at_before[2]

\* The part of C4 the parser keeps: an epoch mismatch writes nothing.
MismatchWritesNothing ==
    EndedOnEpochMismatch =>
        /\ staker_rewards = at_before[1]
        /\ validator_rewards = at_before[2]

\* The validators of the stake-meta artifact whose tip or priority-fee
\* distribution account is `account`.
ValidatorsOfAccount(account) ==
    {StakeMetas[j].validator_vote_account : j \in
        {k \in 1..Len(StakeMetas) :
            \/ /\ StakeMetas[k].maybe_tip_distribution_meta # None
               /\ StakeMetas[k].maybe_tip_distribution_meta[1].tip_distribution_pubkey = account
            \/ /\ StakeMetas[k].maybe_priority_fee_distribution_meta # None
               /\ StakeMetas[k].maybe_priority_fee_distribution_meta[1]
                      .priority_fee_distribution_pubkey = account}}

\* Tree i is the last tree of the priority-fee program for its account.
LastPriorityFeeTree(i) ==
    /\ FetchedTrees[i].distribution_program = PriorityFeeProgram
    /\ \A j \in (i + 1)..Len(FetchedTrees) :
         \/ FetchedTrees[j].distribution_program # PriorityFeeProgram
         \/ ValidatorsOfAccount(FetchedTrees[j].distribution_account)
                \cap ValidatorsOfAccount(FetchedTrees[i].distribution_account) = {}

\* C16: once the trees are parsed, each tree of the priority-fee program whose
\* validator is in the stake-meta has its max_total_claim as the
\* priority_fee_revenue of that validator's ValidatorRewards row.
C16_PriorityFeeRevenueRecorded ==
    at_pc = "write_stakers" =>
        \A i \in 1..Len(FetchedTrees) :
            LastPriorityFeeTree(i) =>
                \A v \in ValidatorsOfAccount(FetchedTrees[i].distribution_account) :
                    \E r \in validators_to_write :
                        /\ r.vote_account = v
                        /\ r.priority_fee_revenue = Some(FetchedTrees[i].max_total_claim)

\* A priority-fee tree is recorded when its distribution account is the
\* validator's tip distribution account.
PriorityFeeRevenueUnderTipAccount ==
    at_pc = "write_stakers" =>
        \A i \in 1..Len(FetchedTrees) :
            (LastPriorityFeeTree(i) /\ FetchedTrees[i].distribution_account \in {"TDA1", "TDA2"}) =>
                \A v \in ValidatorsOfAccount(FetchedTrees[i].distribution_account) :
                    \E r \in validators_to_write :
                        /\ r.vote_account = v
                        /\ r.priority_fee_revenue = Some(FetchedTrees[i].max_total_claim)

\* C17: a run whose merkle-tree artifact holds a tree of a program that is
\* neither the tip nor the priority-fee distribution program fails: it does
\* not get to the writes.
C17_UnknownProgramIsFatal ==
    (Len(merkle_tree_collection) = 1
        /\ \E i \in 1..Len(FetchedTrees) : UnknownProgram(FetchedTrees[i]))
    => at_pc \notin {"write_stakers", "write_validators"}

\* A tree of an unknown program panics when its distribution account is a tip
\* distribution account of the stake-meta and no earlier tree ended the run.
UnknownProgramUnderTipAccountPanics ==
    (Len(merkle_tree_collection) = 1
        /\ \E i \in 1..Len(FetchedTrees) :
              /\ UnknownProgram(FetchedTrees[i])
              /\ FetchedTrees[i].distribution_account \in {"TDA1", "TDA2"})
    => at_pc \notin {"write_stakers", "write_validators"}

\* The staker rows of the target epoch that a run of the service wrote.
WrittenStakerRows ==
    {r \in staker_rewards : r.epoch = TargetEpoch /\ r # EarlierRow(TargetEpoch)}

\* C27: a run for the epoch that comes after a run whose staker rows were
\* written and whose validator rows were not still writes the validator rows:
\* no run returns Ok leaving staker rows of the epoch without validator rows.
C27_ValidatorRowsWrittenLater ==
    (at_pc = "idle" /\ at_result = "Ok" /\ WrittenStakerRows # {})
        => \E v \in validator_rewards : v.epoch = TargetEpoch

\* A run that finds staker rows of the epoch leaves validator_rewards as it is.
FoundLeavesValidatorRewards ==
    at_found => validator_rewards = at_before[2]

(***************************************************************************)
(*              STEWARD INDEXER (steward-writer-service)                   *)
(***************************************************************************)

\* The transactions of the program the cluster can hold.
MaxSigs == 5

\* The slots transactions land in.
MaxSlot == 4

\* The ticks of the listen loop.
MaxTicks == 2

\* The page size: 1000 in the source, run at a smaller value.
NUM_TRANSACTIONS == 2

Slots == 1..MaxSlot

\* The histories of the program: the transaction of signature i landed in slot
\* chain[i], and a later transaction in no earlier slot.
Histories(minLen) ==
    {c \in UNION {[1..n -> Slots] : n \in minLen..MaxSigs} :
        \A i \in 1..(Len(c) - 1) : c[i] <= c[i + 1]}

Max(S) == CHOOSE x \in S : \A y \in S : y <= x

RECURSIVE TakeNewest(_, _)
TakeNewest(sigs, limit) ==
    IF sigs = {} \/ limit = 0 THEN <<>>
    ELSE <<Max(sigs)>> \o TakeNewest(sigs \ {Max(sigs)}, limit - 1)

\* get_signatures_for_address_with_config: the signatures older than `bef`
\* and newer than `until` (0: None), newest first, `limit` at most.
GetSignaturesForAddress(ch, bef, until, limit) ==
    TakeNewest({i \in 1..Len(ch) : (bef = 0 \/ i < bef) /\ (until = 0 \/ i > until)},
               limit)

\* into_iter().rev().collect()
Rev(q) == [i \in 1..Len(q) |-> q[Len(q) + 1 - i]]

\* A log message of the program that carries an event, and one that carries none.
EventLog(type, vote, k) == [event_type |-> type, vote_account |-> vote, metadata |-> k]
OtherLog == [event_type |-> "none", vote_account |-> "none", metadata |-> 0]

\* meta.log_messages of the transaction of a signature, in the order the
\* program emitted them.  The metadata of a log is its place in the stream, so
\* that no two events of a transaction carry the same metadata.  A transaction
\* holds one event; or two events of different types; or two events of one
\* type for one vote account.
LogMessages(sig) ==
    IF sig % 3 = 1
    THEN <<OtherLog, EventLog("RebalanceEvent", "V1", 2)>>
    ELSE IF sig % 3 = 2
    THEN <<EventLog("ScoreComponents", "V1", 1), OtherLog,
           EventLog("DecreaseComponents", "V1", 3)>>
    ELSE <<EventLog("RebalanceEvent", "V1", 1), EventLog("RebalanceEvent", "V1", 2)>>

\* StewardEvent::from_..., called by parse_log with the instruction_idx that
\* process_transactions passes: 0 for every log.
StewardEvent(ch, sig, log) ==
    [signature |-> sig, slot |-> ch[sig], event_type |-> log.event_type,
     vote_account |-> log.vote_account, metadata |-> log.metadata,
     instruction_idx |-> 0]

\* The loop over the log messages of a transaction: parse_log gives Some(event)
\* for a log that carries an event and None for any other.
RECURSIVE ParseLogs(_, _, _)
ParseLogs(ch, sig, logs) ==
    IF logs = <<>> THEN <<>>
    ELSE IF Head(logs).event_type = "none" THEN ParseLogs(ch, sig, Tail(logs))
    ELSE <<StewardEvent(ch, sig, Head(logs))>> \o ParseLogs(ch, sig, Tail(logs))

\* process_transactions: the events of the transactions, in the order of the
\* transactions and of their logs.
RECURSIVE PageEvents(_, _)
PageEvents(ch, sigs) ==
    IF sigs = <<>> THEN <<>>
    ELSE ParseLogs(ch, Head(sigs), LogMessages(Head(sigs))) \o PageEvents(ch, Tail(sigs))

\* StewardEventsStore::upsert: the document of the event's signature, type and
\* vote account is replaced, or inserted if there is none.
Upsert(st, event) ==
    {e \in st : ~(/\ e.signature = event.signature
                  /\ e.event_type = event.event_type
                  /\ e.vote_account = event.vote_account)} \cup {event}

\* StewardEventsStore::bulk_upsert up to its n-th event.
RECURSIVE BulkUpsert(_, _, _)
BulkUpsert(st, events, n) ==
    IF n = 0 THEN st
    ELSE BulkUpsert(Upsert(st, Head(events)), Tail(events), n - 1)

\* get_latest_signature_and_slot: the documents find_one may return under the
\* sort by descending slot.
LatestEvents(st) == {e \in st : \A f \in st : f.slot >= e.slot => f.slot = e.slot}

\* process_transactions: the events of the page are logged in a dry run and
\* upserted otherwise; an upsert that fails ends bulk_upsert, the error is logged.
StoresAfterProcess(st, ch, sigs, dry) ==
    IF dry THEN {st}
    ELSE {BulkUpsert(st, PageEvents(ch, sigs), n) : n \in 0..Len(PageEvents(ch, sigs))}

\* A transaction lands on the cluster.
Land ==
    /\ ix_pc # "off"
    /\ Len(chain) < MaxSigs
    /\ \E slot \in Slots :
         /\ Len(chain) > 0 => chain[Len(chain)] <= slot
         /\ chain' = Append(chain, slot)
    /\ UNCHANGED <<store, ix_pc, ix_dry_run, latest_signature, before, rpc_signatures,
                   processed, should_break, start_slot, end_slot, ticks, ix_result>>
    /\ UNCHANGED otherThanIndexer

\* The store holds the events of the oldest transactions of the history, or
\* nothing.
ListenInit ==
    /\ chain \in Histories(1)
    /\ \E n \in 0..Len(chain) :
         LET events == PageEvents(chain, [i \in 1..n |-> i])
         IN  store = BulkUpsert({}, events, Len(events))
    /\ ix_pc = "idle"
    /\ ix_dry_run \in BOOLEAN
    /\ latest_signature = 0
    /\ before = 0
    /\ rpc_signatures = <<>>
    /\ processed = <<>>
    /\ should_break = FALSE
    /\ start_slot = 0
    /\ end_slot = 0
    /\ ticks = 0
    /\ ix_result = "none"
    /\ OthersIdleForIndexer

\* listen: a tick up to the paging loop.
Tick ==
    /\ ix_pc = "idle"
    /\ ticks < MaxTicks
    /\ ticks' = ticks + 1
    /\ processed' = <<>>
    /\ rpc_signatures' = <<>>
    /\ before' = 0
    /\ \E store_ok \in BOOLEAN, slot_ok \in BOOLEAN :
         IF ~store_ok
         THEN ix_result' = "Err" /\ ix_pc' = "idle" /\ UNCHANGED latest_signature
         ELSE IF store = {}
         THEN ix_result' = "NoSlot" /\ ix_pc' = "idle" /\ UNCHANGED latest_signature
         ELSE \E e \in LatestEvents(store) :
                /\ latest_signature' = e.signature
                /\ IF slot_ok
                   THEN ix_result' = "none" /\ ix_pc' = "signatures"
                   ELSE ix_result' = "Err" /\ ix_pc' = "idle"
    /\ UNCHANGED <<chain, store, ix_dry_run, should_break, start_slot, end_slot>>
    /\ UNCHANGED otherThanIndexer

\* listen: a page of signatures is requested.  An error of the RPC repeats
\* the request, an empty page ends the tick.
ListenSignatures ==
    /\ ix_pc = "signatures"
    /\ \E rpc_ok \in BOOLEAN :
         IF ~rpc_ok
         THEN UNCHANGED <<rpc_signatures, before, ix_pc, ix_result>>
         ELSE LET page == Rev(GetSignaturesForAddress(chain, before, latest_signature,
                                                      NUM_TRANSACTIONS))
              IN  /\ rpc_signatures' = page
                  /\ IF page = <<>>
                     THEN ix_pc' = "idle" /\ ix_result' = "Ok" /\ UNCHANGED before
                     ELSE ix_pc' = "transactions" /\ before' = page[1]
                          /\ UNCHANGED ix_result
    /\ UNCHANGED <<chain, store, ix_dry_run, latest_signature, processed, should_break,
                   start_slot, end_slot, ticks>>
    /\ UNCHANGED otherThanIndexer

\* fetch_and_process_transactions on the page.
ListenProcess ==
    /\ ix_pc = "transactions"
    /\ \E transactions_ok \in BOOLEAN :
         IF ~transactions_ok
         THEN /\ ix_result' = "Err"
              /\ ix_pc' = "idle"
              /\ UNCHANGED <<store, processed>>
         ELSE /\ processed' = processed \o rpc_signatures
              /\ store' \in StoresAfterProcess(store, chain, rpc_signatures, ix_dry_run)
              /\ ix_pc' = "signatures"
              /\ UNCHANGED ix_result
    /\ UNCHANGED <<chain, ix_dry_run, latest_signature, before, rpc_signatures,
                   should_break, start_slot, end_slot, ticks>>
    /\ UNCHANGED otherThanIndexer

ListenNext ==
    \/ Tick
    \/ ListenSignatures
    \/ ListenProcess
    \/ Land

SpecListen == ListenInit /\ [][ListenNext]_vars

\* The signatures of q are in ascending order of slot.
AscendingSlots(q) ==
    \A i \in 1..Len(q), j \in 1..Len(q) : i < j => chain[q[i]] <= chain[q[j]]

\* No signature occurs twice in q.
NoDuplicates(q) ==
    \A i \in 1..Len(q), j \in 1..Len(q) : i # j => q[i] # q[j]

\* C9: the transactions newer than the latest persisted signature, however
\* many pages they span, are processed by one tick in ascending order of slot
\* and each of them once.
C9_AscendingOnce ==
    /\ AscendingSlots(processed)
    /\ NoDuplicates(processed)
    /\ \A i \in 1..Len(processed) : processed[i] > latest_signature

\* The parts of C9 the listen loop keeps: no transaction is processed twice in
\* a tick, none at or before the latest persisted signature, and each page is
\* in ascending order of slot.
ListenOncePerTick ==
    /\ NoDuplicates(processed)
    /\ \A i \in 1..Len(processed) : processed[i] > latest_signature
    /\ AscendingSlots(rpc_signatures)

\* The iterations of the backfill loop that are followed.
MaxPages == 4

\* Backfill { start_slot, end_slot } on an empty store.
BackfillInit ==
    /\ chain \in Histories(0)
    /\ store = {}
    /\ ix_pc = "backfill"
    /\ ix_dry_run \in BOOLEAN
    /\ latest_signature = 0
    /\ before = 0
    /\ rpc_signatures = <<>>
    /\ processed = <<>>
    /\ should_break = FALSE
    /\ start_slot \in Slots
    /\ end_slot \in Slots
    /\ ticks = 0
    /\ ix_result = "none"
    /\ OthersIdleForIndexer

\* The filter_map over a page, newest first: the signatures of the range, in
\* the order of the page.
RECURSIVE ValidSignatures(_, _, _, _)
ValidSignatures(ch, page, start, end) ==
    IF page = <<>> THEN <<>>
    ELSE IF ch[Head(page)] < start THEN ValidSignatures(ch, Tail(page), start, end)
    ELSE IF ch[Head(page)] <= end
    THEN <<Head(page)>> \o ValidSignatures(ch, Tail(page), start, end)
    ELSE ValidSignatures(ch, Tail(page), start, end)

\* The filter_map sets should_break at a signature of a slot before start_slot.
SeesBeforeStart(ch, page, start) == \E i \in 1..Len(page) : ch[page[i]] < start

\* signatures_vec.last(): the oldest signature of the page, None of an empty one.
LastOf(page) == IF page = <<>> THEN 0 ELSE page[Len(page)]

\* fetch_historical_program_transactions: one iteration of the loop.  ticks
\* counts the pages requested.
BackfillPage ==
    /\ ix_pc = "backfill"
    /\ ticks < MaxPages
    /\ \E rpc_ok \in BOOLEAN, transactions_ok \in BOOLEAN :
         IF ~rpc_ok
         THEN UNCHANGED <<store, ix_pc, before, rpc_signatures, processed, should_break,
                          ticks, ix_result>>
         ELSE LET page == GetSignaturesForAddress(chain, before, 0, NUM_TRANSACTIONS)
                  valid == Rev(ValidSignatures(chain, page, start_slot, end_slot))
                  break == should_break \/ SeesBeforeStart(chain, page, start_slot)
              IN  /\ ticks' = ticks + 1
                  /\ before' = LastOf(page)
                  /\ should_break' = break
                  /\ rpc_signatures' = valid
                  /\ IF valid = <<>>
                     THEN UNCHANGED <<store, ix_pc, processed, ix_result>>
                     ELSE IF ~transactions_ok
                     THEN /\ ix_pc' = "done"
                          /\ ix_result' = "Err"
                          /\ UNCHANGED <<store, processed>>
                     ELSE /\ processed' = processed \o valid
                          /\ store' \in StoresAfterProcess(store, chain, valid, ix_dry_run)
                          /\ IF break
                             THEN ix_pc' = "done" /\ ix_result' = "Ok"
                             ELSE UNCHANGED <<ix_pc, ix_result>>
    /\ UNCHANGED <<chain, ix_dry_run, latest_signature, start_slot, end_slot>>
    /\ UNCHANGED otherThanIndexer

BackfillNext ==
    \/ BackfillPage
    \/ Land

SpecBackfill == BackfillInit /\ [][BackfillNext]_vars

\* C10: the backfill requests no further page once it has seen a signature
\* of a slot before start_slot, it processes only signatures whose slot is in
\* [start_slot, end_slot], and it then returns.
C10_StopsAfterStartSlot ==
    /\ should_break => ix_pc = "done"
    /\ \A i \in 1..Len(processed) :
         start_slot <= chain[processed[i]] /\ chain[processed[i]] <= end_slot

\* The part of C10 the backfill keeps: no signature outside the range is
\* processed.
BackfillInRange ==
    \A i \in 1..Len(processed) :
        start_slot <= chain[processed[i]] /\ chain[processed[i]] <= end_slot

\* The backfill pages on after a signature before start_slot, comes to the end
\* of the history and starts again from the newest signature.
BackfillWraps ==
    /\ ix_pc = "backfill"
    /\ should_break
    /\ before = 0
    /\ ticks > 0

\* The place of a persisted event in the log stream of its transaction.
EmitPosition(e) ==
    CHOOSE i \in 1..Len(LogMessages(e.signature)) :
        /\ LogMessages(e.signature)[i].event_type = e.event_type
        /\ LogMessages(e.signature)[i].metadata = e.metadata

\* C11: of two events that a tick decoded from the logs of one transaction and
\* persisted, the one emitted earlier has the smaller instruction_idx.
C11_EmitOrderByInstructionIdx ==
    \A a \in store, b \in store :
        (/\ a.signature = b.signature
         /\ \E i \in 1..Len(processed) : processed[i] = a.signature
         /\ EmitPosition(a) < EmitPosition(b))
            => a.instruction_idx < b.instruction_idx

\* What the indexer keeps instead: every persisted event has instruction_idx 0.
InstructionIdxZero == \A e \in store : e.instruction_idx = 0

\* The events decoded from the logs of the transaction of a signature.
EventsOf(sig) == ParseLogs(chain, sig, LogMessages(sig))

\* steward_events holds an event of the transaction.
Indexed(sig) == \E e \in store : e.signature = sig

\* C26: a transaction whose page a tick did not get to persist, after a newer
\* page was persisted, is indexed by a later tick: once a second tick has
\* ended Ok, no transaction older than a persisted one is left without events.
C26_NoSignatureSkipped ==
    (ix_pc = "idle" /\ ix_result = "Ok" /\ ticks >= 2) =>
        \A sig \in 1..Len(chain) :
            (\E newer \in (sig + 1)..Len(chain) : Indexed(newer)) => Indexed(sig)

\* A tick asks for the signatures after the one of the latest persisted event
\* only.
TickStartsAfterLatest ==
    \A i \in 1..Len(processed) : processed[i] > latest_signature

\* C30: of the events a tick decoded from one transaction, a later one that is
\* persisted has not displaced an earlier one: each is a document of its own.
C30_EventsNotOverwritten ==
    \A i \in 1..Len(processed) :
        \A a, b \in 1..Len(EventsOf(processed[i])) :
            (a < b /\ EventsOf(processed[i])[b] \in store)
                => EventsOf(processed[i])[a] \in store

\* Events of one transaction that differ in type or vote account are kept
\* side by side.
DistinctKeysNotOverwritten ==
    \A i \in 1..Len(processed) :
        \A a, b \in 1..Len(EventsOf(processed[i])) :
            LET ea == EventsOf(processed[i])[a]
                eb == EventsOf(processed[i])[b]
            IN  (/\ a < b
                 /\ eb \in store
                 /\ \A c \in 1..Len(EventsOf(processed[i])) :
                      (c # a /\ EventsOf(processed[i])[c].event_type = ea.event_type)
                          => EventsOf(processed[i])[c].vote_account # ea.vote_account)
                    => ea \in store

(***************************************************************************)
(*              BAM VALIDATOR ELIGIBILITY (bam-writer-service)             *)
(***************************************************************************)

\* The epoch the BAM writer starts in.
BamEpoch == 40

\* How far back of the current epoch a validator's history entries are drawn.
HistoryDepth == 6

\* `x as u16`
AsU16(x) == x % 65536

\* ClientType::from_u8: 6 is Bam, 1 is JitoLabs.
ClientTypeBam == 6
ClientTypeJitoLabs == 1

\* BamValidatorEligibility::new: the lookback windows.
BamValidatorEligibility(epoch) ==
    [validator_commission_start_epoch |-> AsU16(epoch - 30),
     validator_commission_end_epoch |-> AsU16(epoch - 1),
     mev_commission_start_epoch |-> AsU16(epoch - 10),
     mev_commission_end_epoch |-> AsU16(epoch - 1),
     running_bam_start_epoch |-> AsU16(epoch - 3),
     running_bam_end_epoch |-> AsU16(epoch - 1),
     superminority_start_epoch |-> AsU16(epoch - 3),
     superminority_end_epoch |-> AsU16(epoch - 1),
     epoch_credits_start_epoch |-> AsU16(epoch - 3),
     epoch_credits_end_epoch |-> AsU16(epoch - 1)]

\* A validator history: the epochs it has an entry for, and the fields its
\* entries carry.
ValidatorHistory(vote, idx, epochs, client, commission, mev, superminority, credits) ==
    [vote_account |-> vote, index |-> idx, present |-> epochs, client_type |-> client,
     commission |-> commission, mev_commission |-> mev,
     is_superminority |-> superminority, epoch_credits |-> credits]

\* history.<field>_range(start, end): for each epoch of the range, the field of
\* the entry of that epoch, None where the history has no entry.
FieldRange(h, value, start, end) ==
    [i \in 1..(end - start + 1) |->
        IF (start + i - 1) \in h.present THEN Some(value) ELSE None]

\* calculate_chain_max_credits: the most credits any validator earned in an
\* epoch, 0 if none has an entry.
ChainMaxCredits(all_histories, epoch) ==
    LET cs == {h.epoch_credits : h \in {g \in all_histories : epoch \in g.present}}
    IN  IF cs = {} THEN 0 ELSE Max(cs)

\* (max_credits as f64 * 0.97) as u32
MinRequiredCredits(max_credits) == (max_credits * 97) \div 100

\* The first place of a range at which `bad` holds of a present value, 0 if none.
FirstBad(range, bad(_)) ==
    LET is == {i \in 1..Len(range) : range[i] # None /\ bad(range[i][1])}
    IN  IF is = {} THEN 0 ELSE CHOOSE i \in is : \A j \in is : i <= j

Ineligible(tag, epoch) == [tag |-> tag, epoch |-> epoch]
Eligible == [tag |-> "Ok", epoch |-> 0]

\* BamValidatorEligibility::check_eligibility
CheckEligibility(w, all_histories, blacklist_validators, onchain_blacklist, h) ==
    LET client_types == FieldRange(h, h.client_type, w.running_bam_start_epoch,
                                   w.running_bam_end_epoch)
        commissions == FieldRange(h, h.commission, w.validator_commission_start_epoch,
                                  w.validator_commission_end_epoch)
        mev_commissions == FieldRange(h, h.mev_commission, w.mev_commission_start_epoch,
                                      w.mev_commission_end_epoch)
        superminority == FieldRange(h, h.is_superminority, w.superminority_start_epoch,
                                    w.superminority_end_epoch)
        epoch_credits == FieldRange(h, h.epoch_credits, w.epoch_credits_start_epoch,
                                    w.epoch_credits_end_epoch)
        epochs_with_data == Cardinality({i \in 1..Len(commissions) : commissions[i] # None})
        NotBam(c) == c # ClientTypeBam
        NonZero(c) == c # 0
        HighMev(c) == c > 10
        badClient == FirstBad(client_types, NotBam)
        badCommission == FirstBad(commissions, NonZero)
        badMev == FirstBad(mev_commissions, HighMev)
        badSuper == FirstBad(superminority, NonZero)
        lowCredits == {i \in 1..Len(epoch_credits) :
                         /\ epoch_credits[i] # None
                         /\ epoch_credits[i][1] < MinRequiredCredits(
                                ChainMaxCredits(all_histories,
                                                w.epoch_credits_start_epoch + i - 1))}
    IN  IF epochs_with_data < 3 THEN Ineligible("InsufficientHistory", 0)
        ELSE IF badClient # 0 THEN Ineligible("NotBamClient", 0)
        ELSE IF badCommission # 0
        THEN Ineligible("NonZeroCommission",
                        w.validator_commission_start_epoch + badCommission - 1)
        ELSE IF badMev # 0
        THEN Ineligible("HighMevCommission", w.mev_commission_start_epoch + badMev - 1)
        ELSE IF badSuper # 0
        THEN Ineligible("InSuperminority", w.superminority_start_epoch + badSuper - 1)
        ELSE IF lowCredits # {}
        THEN Ineligible("LowVoteCredits",
                        w.epoch_credits_start_epoch
                            + (CHOOSE i \in lowCredits : \A j \in lowCredits : i <= j) - 1)
        ELSE IF h.index \in onchain_blacklist THEN Ineligible("OnChainBlacklist", 0)
        ELSE IF h.vote_account \in blacklist_validators
        THEN Ineligible("OffChainBlacklist", 0)
        ELSE Eligible

\* A validator that has an entry, with full credits, for every epoch.
ReferenceHistory ==
    ValidatorHistory("VRef", 0, (BamEpoch - HistoryDepth)..BamEpoch, ClientTypeBam,
                     0, 0, 0, 10000)

\* The histories a validator is checked with.
SubjectHistories ==
    {ValidatorHistory("V1", 1, epochs, client, commission, mev, superminority, credits) :
        epochs \in SUBSET ((BamEpoch - HistoryDepth)..(BamEpoch - 1)),
        client \in {ClientTypeBam, ClientTypeJitoLabs},
        commission \in {0, 5},
        mev \in {10, 11},
        superminority \in {0, 1},
        credits \in {9600, 10000}}

EligibilityInit ==
    /\ fn_args \in {[call |-> "check_eligibility", current_epoch |-> BamEpoch,
                     validator_history |-> h, blacklist_validators |-> bl,
                     onchain_blacklist |-> ob] :
                        h \in SubjectHistories, bl \in {{}, {"V1"}}, ob \in {{}, {1}}}
    /\ fn_result = <<>>
    /\ OthersIdleForFn

\* check_eligibility is called on the history.
CallCheckEligibility ==
    /\ fn_result = <<>>
    /\ fn_args.call = "check_eligibility"
    /\ fn_result' = Some(CheckEligibility(BamValidatorEligibility(fn_args.current_epoch),
                                          {fn_args.validator_history, ReferenceHistory},
                                          fn_args.blacklist_validators,
                                          fn_args.onchain_blacklist,
                                          fn_args.validator_history))
    /\ UNCHANGED fn_args
    /\ UNCHANGED otherThanFn

EligibilityNext == CallCheckEligibility

SpecEligibility == EligibilityInit /\ [][EligibilityNext]_vars

\* The entries of the history that lie in [E-3, E-1].
EntriesInWindow ==
    fn_args.validator_history.present
        \cap ((fn_args.current_epoch - 3)..(fn_args.current_epoch - 1))

\* C14: a validator with fewer than three entries in [E-3, E-1] is rejected
\* with InsufficientHistory, whatever its other fields and whatever entries
\* it has outside that window.
C14_InsufficientHistory ==
    (fn_result # <<>> /\ Cardinality(EntriesInWindow) < 3)
        => fn_result[1].tag = "InsufficientHistory"

\* What check_eligibility keeps: fewer than three entries in [E-30, E-1] give
\* InsufficientHistory.
InsufficientOverCommissionWindow ==
    (fn_result # <<>> /\ Cardinality(fn_args.validator_history.present) < 3)
        => fn_result[1].tag = "InsufficientHistory"

(***************************************************************************)
(*              BAM WRITER (bam-writer-service)                            *)
(***************************************************************************)

\* The runs of BamWriterService::run that are followed.
MaxBamRuns == 2

\* The epochs the cluster advances while the service runs.
MaxEpochAdvance == 1

\* The activated stake of all vote accounts together.
TotalNetworkStake == 100

BASIS_POINTS_MAX == 10000

\* BamDelegationCriteria::new: (stakeweight threshold, allocation), both in bps.
Tiers ==
    << <<0, 2000>>, <<2000, 3000>>, <<2500, 4000>>, <<3000, 5000>>, <<3500, 7000>>,
       <<4000, 10000>> >>

\* calculate_bam_stakeweight
CalculateBamStakeweight(bam_sol_stake, total_sol_stake) ==
    IF total_sol_stake = 0 THEN None
    ELSE Some((bam_sol_stake * BASIS_POINTS_MAX) \div total_sol_stake)

\* A variant of TierMet that looks at the current epoch only.
TierMetByCurrentOnly(threshold, current_bps, previous_bps) == current_bps >= threshold

\* The closure of find in calculate_current_allocation.
TierMet(threshold, current_bps, previous_bps) ==
    current_bps >= threshold /\ previous_bps >= threshold

\* tiers.iter().rev().find(..).map(..).unwrap_or(2_000), from tier i down.
RECURSIVE FindTier(_, _, _)
FindTier(i, current_bps, previous_bps) ==
    IF i = 0 THEN 2000
    ELSE IF TierMet(Tiers[i][1], current_bps, previous_bps) THEN Tiers[i][2]
    ELSE FindTier(i - 1, current_bps, previous_bps)

\* calculate_current_allocation; the previous metric is an Option.
CalculateCurrentAllocation(current_epoch_metric, previous_epoch_metric) ==
    LET current_stakeweight_bps ==
            UnwrapOr(CalculateBamStakeweight(current_epoch_metric.bam_stake,
                                             current_epoch_metric.total_stake), 0)
    IN  IF previous_epoch_metric = None THEN 2000
        ELSE LET prev_metric == previous_epoch_metric[1]
                 previous_stakeweight_bps ==
                     UnwrapOr(CalculateBamStakeweight(prev_metric.bam_stake,
                                                      prev_metric.total_stake), 0)
             IN  FindTier(Len(Tiers), current_stakeweight_bps, previous_stakeweight_bps)

\* calculate_available_delegation
CalculateAvailableDelegation(allocation_bps, total_jitosol_tvl) ==
    (total_jitosol_tvl * allocation_bps) \div BASIS_POINTS_MAX

\* BamEpochMetrics::new, then the two setters.
BamEpochMetrics(epoch, bam_stake, total_stake, jitosol_stake, count, allocation, available) ==
    [epoch |-> epoch, bam_stake |-> bam_stake, total_stake |-> total_stake,
     jitosol_stake |-> jitosol_stake, eligible_bam_validator_count |-> count,
     allocation_bps |-> allocation, available_bam_delegation_stake |-> available]

\* BamEpochMetricsStore::upsert: the document of the epoch is replaced, or
\* inserted if there is none.
UpsertMetrics(coll, row) ==
    {r \in coll : r.epoch # AsU32(row.epoch)} \cup {row}

\* BamEpochMetricsStore::find_by_epoch
FindByEpoch(coll, epoch) ==
    IF \E r \in coll : r.epoch = AsU32(epoch)
    THEN Some(CHOOSE r \in coll : r.epoch = AsU32(epoch))
    ELSE None

\* BamValidator::new
BamValidator(active_stake, epoch, identity, is_eligible, vote, reason) ==
    [active_stake |-> active_stake, epoch |-> epoch, identity_account |-> identity,
     is_eligible |-> is_eligible, vote_account |-> vote, ineligibility_reason |-> reason]

\* BamValidatorStore::upsert(&validators, epoch): the documents of the epoch
\* and the vote accounts are replaced, or inserted.
UpsertValidators(coll, rows, epoch) ==
    {r \in coll : ~\E n \in rows : r.epoch = epoch /\ r.vote_account = n.vote_account}
        \cup rows

\* get_vote_accounts().current: the vote accounts and their identities.  V1 and V2
\* run BAM nodes; V3 stands for the rest of the cluster.
VoteAccounts == {"V1", "V2", "V3"}
NodeOf(vote) == IF vote = "V1" THEN "N1" ELSE IF vote = "V2" THEN "N2" ELSE "N3"
BamNodeValidators == {"N1", "N2"}

\* The activated stake of the vote accounts.
ActivatedStakes ==
    {[v \in VoteAccounts |->
         IF v = "V1" THEN a ELSE IF v = "V2" THEN b ELSE TotalNetworkStake - a - b] :
        a \in {20, 25}, b \in {15}}

\* The pool's total_lamports.
JitosolStakes == {12345, 20000}

\* The history of a validator at an epoch: entries for the three epochs before
\* it, or for the last epoch only.
HistoryAt(vote, idx, epoch, full) ==
    ValidatorHistory(vote, idx, IF full THEN (epoch - 3)..(epoch - 1) ELSE {epoch - 1},
                     ClientTypeBam, 0, 0, 0, 10000)

RECURSIVE SumStake(_)
SumStake(rows) ==
    IF rows = {} THEN 0
    ELSE LET r == CHOOSE x \in rows : TRUE IN r.active_stake + SumStake(rows \ {r})

RECURSIVE SumOver(_, _)
SumOver(f, keys) ==
    IF keys = {} THEN 0
    ELSE LET k == CHOOSE x \in keys : TRUE IN f[k] + SumOver(f, keys \ {k})

\* run, override mode: a row, marked eligible, for each override pubkey that is
\* a current vote account.
OverrideValidators(overrides, stakes, epoch) ==
    {BamValidator(stakes[v], epoch, NodeOf(v), TRUE, v, None) :
        v \in overrides \cap VoteAccounts}

\* run, normal mode: a row for each validator history whose vote account runs
\* a BAM node, eligible if check_eligibility returns Ok.
CheckedValidators(histories, stakes, epoch) ==
    {LET res == CheckEligibility(BamValidatorEligibility(epoch), histories, {}, {}, h)
     IN  BamValidator(stakes[h.vote_account], epoch, NodeOf(h.vote_account),
                      res = Eligible, h.vote_account,
                      IF res = Eligible THEN None ELSE Some(res.tag)) :
        h \in {g \in histories : NodeOf(g.vote_account) \in BamNodeValidators}}

\* The service is started in an epoch, before or after the threshold; the
\* metrics of the epoch before may be in the store.
BamInit ==
    /\ bam_pc = "wait"
    /\ cluster_epoch = BamEpoch
    /\ past_threshold \in BOOLEAN
    /\ current_epoch = 0
    /\ last_processed_epoch = None
    /\ override_eligible_validators \in {None, Some({"V1", "V4"})}
    /\ override_delegation_lamports \in {None, Some(500)}
    /\ bam_validators = {}
    /\ bam_epoch_metrics \in
         {{}} \cup {{BamEpochMetrics(BamEpoch - 1, b, TotalNetworkStake, 20000, 1, 2000,
                                     CalculateAvailableDelegation(2000, 20000))} :
                       b \in {20, 25, 40}}
    /\ bam_run = None
    /\ bam_log = <<>>
    /\ OthersIdleForBam

\* The epoch's progress reaches the threshold.
ClusterProgress ==
    /\ bam_pc \in {"wait", "run", "metrics"}
    /\ ~past_threshold
    /\ past_threshold' = TRUE
    /\ UNCHANGED <<bam_pc, cluster_epoch, current_epoch, last_processed_epoch,
                   override_eligible_validators, override_delegation_lamports,
                   bam_validators, bam_epoch_metrics, bam_run, bam_log>>
    /\ UNCHANGED otherThanBam

\* The cluster enters the next epoch.
ClusterNewEpoch ==
    /\ bam_pc \in {"wait", "run", "metrics"}
    /\ cluster_epoch < BamEpoch + MaxEpochAdvance
    /\ cluster_epoch' = cluster_epoch + 1
    /\ past_threshold' = FALSE
    /\ UNCHANGED <<bam_pc, current_epoch, last_processed_epoch,
                   override_eligible_validators, override_delegation_lamports,
                   bam_validators, bam_epoch_metrics, bam_run, bam_log>>
    /\ UNCHANGED otherThanBam

\* main: wait_for_epoch_threshold returns the epoch once the threshold is
\* reached, and run is entered unless that epoch is last_processed_epoch.
WaitForEpochThreshold ==
    /\ bam_pc = "wait"
    /\ Len(bam_log) < MaxBamRuns
    /\ past_threshold
    /\ current_epoch' = cluster_epoch
    /\ bam_pc' = IF last_processed_epoch # Some(cluster_epoch) THEN "run" ELSE "wait"
    /\ UNCHANGED <<cluster_epoch, past_threshold, last_processed_epoch,
                   override_eligible_validators, override_delegation_lamports,
                   bam_validators, bam_epoch_metrics, bam_run, bam_log>>
    /\ UNCHANGED otherThanBam

LogEntry(epoch, wrote_validators, wrote_metrics, run_result, prev, row) ==
    [epoch |-> epoch, wrote_validators |-> wrote_validators,
     wrote_metrics |-> wrote_metrics, result |-> run_result, prev |-> prev, row |-> row]

\* run, up to the upsert of the BamValidator rows.  The epoch is read anew.
RunValidators ==
    /\ bam_pc = "run"
    /\ \E fetch_ok \in BOOLEAN, upsert_ok \in BOOLEAN, stakes \in ActivatedStakes,
          jitosol_stake \in JitosolStakes, full1 \in BOOLEAN, full2 \in BOOLEAN :
         LET epoch == cluster_epoch
             histories == {HistoryAt("V1", 1, epoch, full1), HistoryAt("V2", 2, epoch, full2),
                           HistoryAt("V3", 3, epoch, TRUE)}
             rows == IF override_eligible_validators # None
                     THEN OverrideValidators(override_eligible_validators[1], stakes, epoch)
                     ELSE CheckedValidators(histories, stakes, epoch)
             eligible == {r \in rows : r.is_eligible}
         IN  IF ~fetch_ok \/ ~upsert_ok
             THEN /\ bam_log' = Append(bam_log,
                                       LogEntry(epoch, FALSE, FALSE, "Err", None, None))
                  /\ bam_pc' = "wait"
                  /\ UNCHANGED <<bam_validators, bam_run>>
             ELSE /\ bam_validators' = UpsertValidators(bam_validators, rows, epoch)
                  /\ bam_run' = Some([epoch |-> epoch, jitosol_stake |-> jitosol_stake,
                                      total_stake |-> SumOver(stakes, VoteAccounts),
                                      bam_stake |-> SumStake(eligible),
                                      count |-> Cardinality(eligible)])
                  /\ bam_log' = Append(bam_log,
                                       LogEntry(epoch, TRUE, FALSE, "running", None, None))
                  /\ bam_pc' = "metrics"
    /\ UNCHANGED <<cluster_epoch, past_threshold, current_epoch, last_processed_epoch,
                   override_eligible_validators, override_delegation_lamports,
                   bam_epoch_metrics>>
    /\ UNCHANGED otherThanBam

\* run, from BamEpochMetrics::new on, and main's handling of its result.
RunMetrics ==
    /\ bam_pc = "metrics"
    /\ \E find_ok \in BOOLEAN, upsert_ok \in BOOLEAN :
         LET run == bam_run[1]
             n == Len(bam_log)
             current == BamEpochMetrics(run.epoch, run.bam_stake, run.total_stake,
                                        run.jitosol_stake, run.count, 0, 0)
             prev == IF override_delegation_lamports # None THEN None
                     ELSE FindByEpoch(bam_epoch_metrics, run.epoch - 1)
             allocation == IF override_delegation_lamports # None THEN 0
                           ELSE CalculateCurrentAllocation(current, prev)
             available == IF override_delegation_lamports # None
                          THEN override_delegation_lamports[1] * run.count
                          ELSE CalculateAvailableDelegation(allocation, run.jitosol_stake)
             row == BamEpochMetrics(run.epoch, run.bam_stake, run.total_stake,
                                    run.jitosol_stake, run.count, allocation, available)
         IN  IF override_delegation_lamports = None /\ ~find_ok
             THEN /\ bam_log' = [bam_log EXCEPT ![n].result = "Err"]
                  /\ bam_pc' = "wait"
                  /\ UNCHANGED <<bam_epoch_metrics, last_processed_epoch>>
             ELSE IF run.count = 0
             THEN \* available_delegation / eligible_bam_validators.len(): division by zero
                  /\ bam_log' = [bam_log EXCEPT ![n].result = "Panic", ![n].prev = prev]
                  /\ bam_pc' = "crashed"
                  /\ UNCHANGED <<bam_epoch_metrics, last_processed_epoch>>
             ELSE IF ~upsert_ok
             THEN /\ bam_log' = [bam_log EXCEPT ![n].result = "Err", ![n].prev = prev,
                                                ![n].row = Some(row)]
                  /\ bam_pc' = "wait"
                  /\ UNCHANGED <<bam_epoch_metrics, last_processed_epoch>>
             ELSE /\ bam_epoch_metrics' = UpsertMetrics(bam_epoch_metrics, row)
                  /\ bam_log' = [bam_log EXCEPT ![n].result = "Ok", ![n].prev = prev,
                                                ![n].row = Some(row),
                                                ![n].wrote_metrics = TRUE]
                  /\ last_processed_epoch' = Some(current_epoch)
                  /\ bam_pc' = "wait"
    /\ bam_run' = None
    /\ UNCHANGED <<cluster_epoch, past_threshold, current_epoch,
                   override_eligible_validators, override_delegation_lamports,
                   bam_validators>>
    /\ UNCHANGED otherThanBam

BamNext ==
    \/ ClusterProgress
    \/ ClusterNewEpoch
    \/ WaitForEpochThreshold
    \/ RunValidators
    \/ RunMetrics

SpecBam == BamInit /\ [][BamNext]_vars

(***************************************************************************)
(* Properties of the BAM writer.                                           *)
(***************************************************************************)

\* C12: every row of bam_epoch_metrics has available_bam_delegation_stake =
\* floor(jitosol_stake * allocation_bps / 10_000), whichever mode wrote it.
C12_AvailableFromAllocation ==
    \A r \in bam_epoch_metrics :
        r.available_bam_delegation_stake = (r.jitosol_stake * r.allocation_bps) \div 10000

\* Without the delegation override the rows do satisfy the equation.
AvailableFromAllocationNoOverride ==
    override_delegation_lamports = None => C12_AvailableFromAllocation

\* sw(e) = floor(bam_stake(e) * 10_000 / total_stake(e))
Sw(metric) == (metric.bam_stake * 10000) \div metric.total_stake

\* The allocation of the tier with the greatest threshold among those met by
\* both stakeweights.
HighestTierAllocation(sw_current, sw_previous) ==
    LET met == {i \in 1..Len(Tiers) : sw_current >= Tiers[i][1] /\ sw_previous >= Tiers[i][1]}
        top == CHOOSE i \in met : \A j \in met : Tiers[j][1] <= Tiers[i][1]
    IN  Tiers[top][2]

\* The runs that computed an allocation.
AllocatingRuns ==
    {i \in 1..Len(bam_log) : override_delegation_lamports = None /\ bam_log[i].row # None}

\* C13: the allocation computed for epoch E is that of the highest tier whose
\* threshold is met by both sw(E) and sw(E-1), and 2_000 when there is no row
\* for E-1.
C13_HighestTierMetByBoth ==
    \A i \in AllocatingRuns :
        LET e == bam_log[i]
        IN  e.row[1].allocation_bps =
                IF e.prev = None THEN 2000
                ELSE HighestTierAllocation(Sw(e.row[1]), Sw(e.prev[1]))

\* A run with 25 % stakeweight in E and 20 % in E-1 allocated 3000.
C13_Witness ==
    \E i \in AllocatingRuns :
        LET e == bam_log[i]
        IN  /\ e.prev # None
            /\ Sw(e.row[1]) = 2500
            /\ Sw(e.prev[1]) = 2000
            /\ e.row[1].allocation_bps = 3000

\* A run with 25 % stakeweight in both epochs allocated 4000.
BothAtBoundary ==
    \E i \in AllocatingRuns :
        LET e == bam_log[i]
        IN  /\ e.prev # None
            /\ Sw(e.row[1]) = 2500
            /\ Sw(e.prev[1]) = 2500
            /\ e.row[1].allocation_bps = 4000

\* A run without a row for E-1 allocated 2000.
NoPreviousData ==
    \E i \in AllocatingRuns : bam_log[i].prev = None /\ bam_log[i].row[1].allocation_bps = 2000

\* C15: after a run that wrote the rows of epoch E has returned Ok, no later
\* run writes BamValidator or BamEpochMetrics rows for E.
C15_OncePerThreshold ==
    \A i \in 1..Len(bam_log) : \A j \in (i + 1)..Len(bam_log) :
        (bam_log[i].result = "Ok" /\ (bam_log[j].wrote_validators \/ bam_log[j].wrote_metrics))
            => bam_log[i].epoch # bam_log[j].epoch

\* The epoch main compares and stores is the one wait_for_epoch_threshold
\* returned, which the epoch run writes may be ahead of.
RunEpochAtLeastWaited ==
    \A i \in 1..Len(bam_log) : bam_log[i].epoch >= BamEpoch

\* C29: a run in which no validator is eligible does not crash: no run ends
\* in a panic, and the row of the epoch is persisted with a count of 0.
C29_NoEligibleRunCompletes ==
    \A i \in 1..Len(bam_log) : bam_log[i].result # "Panic"

\* No row of bam_epoch_metrics written by a run has a count of 0: the run
\* ends before the upsert.
NoRowWithZeroCount ==
    \A i \in 1..Len(bam_log) :
        bam_log[i].wrote_metrics => bam_log[i].row[1].eligible_bam_validator_count > 0

(***************************************************************************)
(*              ARTIFACT SELECTION (writer-service, google_storage)        *)
(***************************************************************************)

\* The epoch whose artifacts are looked for.
StorageEpoch == 7

\* The number of objects the bucket listing holds at most.
MaxItems == 3

\* Server names, as strings of characters.
ServerNames == {<<"a">>, <<"b">>}

\* str::contains
Contains(haystack, needle) ==
    \E i \in 0..(Len(haystack) - Len(needle)) :
        SubSeq(haystack, i + 1, i + Len(needle)) = needle

\* An object of the bucket, named "<dir>/<server>/<dir>-<kind>-collection.json".
\* The name is kept in its three parts; media_link identifies the object.
GoogleStorageBucketFile(dir, server, kind) ==
    [name |-> [dir |-> dir, server |-> server, kind |-> kind],
     media_link |-> <<dir, server, kind>>]

BucketFiles ==
    {GoogleStorageBucketFile(d, sv, k) :
        d \in {StorageEpoch - 1, StorageEpoch}, sv \in ServerNames,
        k \in {"merkle-tree", "stake-meta"}}

\* Listings of up to MaxItems distinct objects, in the order the bucket gives.
NoRepeats(q) == \A i, j \in 1..Len(q) : i # j => q[i] # q[j]

RECURSIVE Listings(_)
Listings(n) ==
    IF n = 0 THEN {<<>>}
    ELSE LET shorter == Listings(n - 1)
         IN  shorter \cup
             {q \in {Append(l, f) : l \in {x \in shorter : Len(x) = n - 1},
                                    f \in BucketFiles} : NoRepeats(q)}

\* The closure of find in filter_file.
FileMatches(file, name, epoch, server_name) ==
    /\ file.name.kind = name
    /\ file.name.dir = epoch
    /\ Contains(file.name.server, server_name)

\* filter_file: the first matching object, or FileNotFound.
FilterFile(response, name, epoch, server_name) ==
    LET hits == {i \in 1..Len(response) : FileMatches(response[i], name, epoch, server_name)}
    IN  IF hits = {} THEN None
        ELSE Some(response[CHOOSE i \in hits : \A j \in hits : i <= j])

\* find_map over the server names, from name i on.
RECURSIVE FindMap(_, _, _, _, _)
FindMap(items, name, epoch, server_names, i) ==
    IF i > Len(server_names) THEN None
    ELSE LET f == FilterFile(items, name, epoch, server_names[i])
         IN  IF f # None THEN f ELSE FindMap(items, name, epoch, server_names, i + 1)

\* get_file_uris, after the listing has been read.
GetFileUris(items, epoch, server_names) ==
    LET merkle_tree_entry == FindMap(items, "merkle-tree", epoch, server_names, 1)
        stake_meta_entry == FindMap(items, "stake-meta", epoch, server_names, 1)
    IN  IF merkle_tree_entry = None \/ stake_meta_entry = None
        THEN [outcome |-> "FileNotFound"]
        ELSE [outcome |-> "Ok",
              merkle_tree |-> merkle_tree_entry[1].media_link,
              stake_meta |-> stake_meta_entry[1].media_link]

\* The configured priority orders.
ServerOrders == {<< <<"a">>, <<"b">> >>, << <<"b">>, <<"a">> >>, << <<"a">> >>}

StorageInit ==
    /\ fn_args \in {[call |-> "get_file_uris", epoch |-> StorageEpoch,
                     mainnet_gcp_server_names |-> o, items |-> l] :
                       o \in ServerOrders, l \in Listings(MaxItems)}
    /\ fn_result = None
    /\ OthersIdleForFn

CallGetFileUris ==
    /\ fn_args.call = "get_file_uris"
    /\ fn_result = None
    /\ fn_result' = Some(GetFileUris(fn_args.items, fn_args.epoch,
                                     fn_args.mainnet_gcp_server_names))
    /\ UNCHANGED fn_args
    /\ UNCHANGED otherThanFn

StorageNext == CallGetFileUris

SpecStorage == StorageInit /\ [][StorageNext]_vars

\* The server names that have both artifacts of the epoch in the listing.
ServersWithBoth ==
    {i \in 1..Len(fn_args.mainnet_gcp_server_names) :
        \A k \in {"merkle-tree", "stake-meta"} :
            \E j \in 1..Len(fn_args.items) :
                FileMatches(fn_args.items[j], k, fn_args.epoch,
                            fn_args.mainnet_gcp_server_names[i])}

\* C18: the two artifacts selected for the epoch come from one server, the
\* first server name of the priority order that has both.
C18_SameFirstServer ==
    (fn_result # None /\ fn_result[1].outcome = "Ok") =>
        /\ ServersWithBoth # {}
        /\ LET first == CHOOSE i \in ServersWithBoth : \A j \in ServersWithBoth : i <= j
               sv == fn_args.mainnet_gcp_server_names[first]
           IN  /\ fn_result[1].merkle_tree[2] = sv
               /\ fn_result[1].stake_meta[2] = sv

\* Each selected artifact is of the epoch and kind asked for, and from the
\* first server name that has an artifact of that kind.
SelectedPerArtifact ==
    (fn_result # None /\ fn_result[1].outcome = "Ok") =>
        /\ fn_result[1].merkle_tree[1] = fn_args.epoch
        /\ fn_result[1].stake_meta[1] = fn_args.epoch
        /\ fn_result[1].merkle_tree[3] = "merkle-tree"
        /\ fn_result[1].stake_meta[3] = "stake-meta"

(***************************************************************************)
(*              VALIDATOR UPSERT AND LIVE LOOP (writer-service)            *)
(***************************************************************************)

\* The epoch the writer service runs in.
WriterEpoch == 9

\* The calls of upsert_to_db that are followed.
MaxUpsertRuns == 3

\* The iterations of run_live_mode that are followed.
MaxWriterTicks == 2

\* Validator::new: the fields the collection is keyed by, the time the record
\* was built, and one field of data.
Validator(vote, epoch, timestamp, active_stake) ==
    [vote_account |-> vote, epoch |-> epoch, timestamp |-> timestamp,
     active_stake |-> active_stake]

\* The documents the filter of replace_one matches.
FilterHits(coll, epoch, item) ==
    {i \in 1..Len(coll) :
        coll[i].epoch = AsU32(epoch) /\ coll[i].vote_account = item.vote_account}

\* A variant of ReplaceOne that appends the item whether or not a document
\* matches.
InsertOne(coll, epoch, item) == Append(coll, item)

\* replace_one(filter, item) with upsert: the first matching document is
\* replaced by the item, and the item is inserted if none matches.
ReplaceOne(coll, epoch, item) ==
    LET hits == FilterHits(coll, epoch, item)
    IN  IF hits = {} THEN Append(coll, item)
        ELSE [coll EXCEPT ![CHOOSE i \in hits : \A j \in hits : i <= j] = item]

\* The loops of upsert_to_db over the first n items.
RECURSIVE UpsertToDb(_, _, _, _)
UpsertToDb(coll, items, epoch, n) ==
    IF n = 0 THEN coll
    ELSE ReplaceOne(UpsertToDb(coll, items, epoch, n - 1), epoch, items[n])

\* fetch_all_validators: the records of the validators that validators.app
\* reports for the epoch, built at time `timestamp`.
FetchedValidators(epoch, timestamp) ==
    LET docs == {Validator(v, epoch, timestamp, st) : v \in {"V1", "V2"}, st \in {10, 20}}
    IN  {<<>>} \cup {<<a>> : a \in docs} \cup {<<a, b>> : a \in docs, b \in docs}

\* The validators collection before the service's first write of the epoch:
\* empty, or holding what earlier upserts left.
EarlierCollections ==
    {<<>>,
     <<Validator("V1", WriterEpoch - 1, 0, 10)>>,
     <<Validator("V1", WriterEpoch - 1, 0, 10), Validator("V1", WriterEpoch, 0, 10)>>}

UpsertInit ==
    /\ fn_args \in {[call |-> "upsert_to_db", items |-> l, epoch |-> WriterEpoch] :
                       l \in FetchedValidators(WriterEpoch, 1)}
    /\ fn_result = None
    /\ validators_collection \in EarlierCollections
    /\ up_runs = 0
    /\ up_single = None
    /\ wr_pc = "off" /\ wr_epoch = 0 /\ wr_ticks = 0 /\ wr_failed = FALSE
    /\ stake_pool_stats = 0
    /\ CrankerIdle /\ AttribIdle /\ IndexerIdle /\ BamIdle /\ CrankLoopIdle

\* upsert_to_db over the same items: n replace_one calls succeed, the next,
\* if there is one, returns an error.
CallUpsertToDb ==
    /\ fn_args.call = "upsert_to_db"
    /\ up_runs < MaxUpsertRuns
    /\ \E n \in 0..Len(fn_args.items) :
         LET after == UpsertToDb(validators_collection, fn_args.items, fn_args.epoch, n)
             ok == n = Len(fn_args.items)
         IN  /\ validators_collection' = after
             /\ fn_result' = Some(IF ok THEN "Ok" ELSE "Err")
             /\ up_single' = IF up_single = None /\ ok THEN Some(after) ELSE up_single
    /\ up_runs' = up_runs + 1
    /\ UNCHANGED <<fn_args, wr_pc, wr_epoch, wr_ticks, wr_failed, stake_pool_stats>>
    /\ UNCHANGED <<crankerVars, attribVars, indexerVars, bamVars, crankLoopVars>>

UpsertNext == CallUpsertToDb

SpecUpsert == UpsertInit /\ [][UpsertNext]_vars

\* The documents of the collection with the key (epoch, vote_account).
DocsOfKey(epoch, vote) ==
    {i \in 1..Len(validators_collection) :
        /\ validators_collection[i].epoch = epoch
        /\ validators_collection[i].vote_account = vote}

\* C19: after any number of calls of upsert_to_db over the same records, when
\* the last call has returned Ok the collection holds exactly one document per
\* (epoch, vote_account) of the records and is what it was after the first
\* call that returned Ok.
C19_UpsertIdempotent ==
    (up_single # None /\ fn_result = Some("Ok")) =>
        /\ validators_collection = up_single[1]
        /\ \A k \in 1..Len(fn_args.items) :
             Cardinality(DocsOfKey(fn_args.epoch, fn_args.items[k].vote_account)) = 1

\* A call that returns an error after some of its replace_one calls leaves
\* one document per key it has written, never two.
NoDuplicateKeys ==
    \A i, j \in 1..Len(validators_collection) :
        (/\ validators_collection[i].epoch = validators_collection[j].epoch
         /\ validators_collection[i].vote_account = validators_collection[j].vote_account)
            => i = j

\* Three calls over two records have been made, the last returned Ok, and
\* the collection held documents before the first.
C19_Witness ==
    /\ up_single # None
    /\ up_runs = 3
    /\ fn_result = Some("Ok")
    /\ Len(fn_args.items) = 2
    /\ Len(validators_collection) >= 3

\* The artifacts write_mev_claims_info may find for an epoch: the epochs the
\* two report and the trees.
TickArtifacts ==
    {[stake_meta_epoch |-> se, merkle_epoch |-> me, trees |-> t] :
        se \in {WriterEpoch - 1}, me \in {WriterEpoch - 1, WriterEpoch},
        t \in {<<>>,
               <<GeneratedMerkleTree(TipProgram, "TDA1", {1, 2})>>,
               <<GeneratedMerkleTree(OtherProgram, "TDA1", {})>>}}

WriterInit ==
    /\ wr_pc = "tick"
    /\ wr_epoch = 0
    /\ wr_ticks = 0
    /\ wr_failed = FALSE
    /\ validators_collection \in EarlierCollections
    /\ stake_pool_stats = 0
    /\ up_runs = 0
    /\ up_single = None
    /\ OthersIdleForWriter

\* process_epoch: retry_get_epoch_info(..).await?  An error, returned once the
\* backoff gives up, leaves process_epoch and, by the ? in run_live_mode, the
\* loop.
GetEpochInfo ==
    /\ wr_pc = "tick"
    /\ wr_ticks < MaxWriterTicks
    /\ wr_ticks' = wr_ticks + 1
    /\ \E rpc_ok \in BOOLEAN :
         IF rpc_ok
         THEN /\ wr_epoch' = WriterEpoch
              /\ wr_pc' = "validators"
              /\ UNCHANGED wr_failed
         ELSE /\ wr_pc' = "exited"
              /\ wr_failed' = TRUE
              /\ UNCHANGED wr_epoch
    /\ UNCHANGED <<validators_collection, stake_pool_stats, up_runs, up_single>>
    /\ UNCHANGED otherThanWriter

\* process_epoch: write_validator_info, whose error is logged.
WriteValidatorInfo ==
    /\ wr_pc = "validators"
    /\ \E fetch_ok \in BOOLEAN, items \in FetchedValidators(wr_epoch, wr_ticks) :
         \E n \in 0..Len(items) :
            IF ~fetch_ok
            THEN /\ wr_failed' = TRUE
                 /\ UNCHANGED <<validators_collection, up_runs>>
            ELSE /\ validators_collection' =
                        UpsertToDb(validators_collection, items, wr_epoch, n)
                 /\ up_runs' = up_runs + 1
                 /\ wr_failed' = (wr_failed \/ n < Len(items))
    /\ wr_pc' = "mev"
    /\ UNCHANGED <<wr_epoch, wr_ticks, stake_pool_stats, up_single>>
    /\ UNCHANGED otherThanWriter

\* process_epoch: write_mev_claims_info for the epoch before, whose error is
\* logged; a panic! of parse_merkle_tree ends the process.
WriteMevClaimsInfo ==
    /\ wr_pc = "mev"
    /\ \E fetch_ok \in BOOLEAN, insert_ok \in BOOLEAN, art \in TickArtifacts :
         LET target_epoch == wr_epoch - 1
             r == ParseMerkleTree(
                    [epoch |-> art.stake_meta_epoch, stake_metas |-> StakeMetas],
                    [epoch |-> art.merkle_epoch, generated_merkle_trees |-> art.trees],
                    target_epoch)
         IN  IF AlreadyWritten(staker_rewards, target_epoch)
             THEN /\ wr_pc' = "hourly"
                  /\ UNCHANGED <<wr_failed, staker_rewards, validator_rewards>>
             ELSE IF ~fetch_ok
             THEN /\ wr_pc' = "hourly"
                  /\ wr_failed' = TRUE
                  /\ UNCHANGED <<staker_rewards, validator_rewards>>
             ELSE IF r.outcome = "Panic"
             THEN /\ wr_pc' = "crashed"
                  /\ wr_failed' = TRUE
                  /\ UNCHANGED <<staker_rewards, validator_rewards>>
             ELSE IF r.outcome # "Ok" \/ ~insert_ok
             THEN /\ wr_pc' = "hourly"
                  /\ wr_failed' = TRUE
                  /\ UNCHANGED <<staker_rewards, validator_rewards>>
             ELSE /\ wr_pc' = "hourly"
                  /\ staker_rewards' = staker_rewards \cup r.stakers
                  /\ validator_rewards' = validator_rewards \cup r.validators
                  /\ UNCHANGED wr_failed
    /\ UNCHANGED <<wr_epoch, wr_ticks, validators_collection, stake_pool_stats, up_runs,
                   up_single>>
    /\ UNCHANGED <<at_pc, at_runs, stake_meta_collection, merkle_tree_collection,
                   stakers_to_write, validators_to_write, at_before, at_found, at_result>>
    /\ UNCHANGED <<crankerVars, indexerVars, bamVars, fnVars, crankLoopVars>>

\* run_live_mode: the hourly write_stake_pool_info, whose error is logged,
\* and the sleep until the next iteration.
HourlyUpdateAndSleep ==
    /\ wr_pc = "hourly"
    /\ \E due \in BOOLEAN, write_ok \in BOOLEAN :
         IF due /\ write_ok
         THEN stake_pool_stats' = stake_pool_stats + 1 /\ UNCHANGED wr_failed
         ELSE IF due
         THEN wr_failed' = TRUE /\ UNCHANGED stake_pool_stats
         ELSE UNCHANGED <<wr_failed, stake_pool_stats>>
    /\ wr_pc' = "tick"
    /\ UNCHANGED <<wr_epoch, wr_ticks, validators_collection, up_runs, up_single>>
    /\ UNCHANGED otherThanWriter

WriterNext ==
    \/ GetEpochInfo
    \/ WriteValidatorInfo
    \/ WriteMevClaimsInfo
    \/ HourlyUpdateAndSleep

SpecWriter == WriterInit /\ [][WriterNext]_vars

\* C20: a failure inside an iteration of the live loop is logged and the loop
\* goes on: it neither returns nor ends the process.
C20_FailedTickContinues ==
    wr_failed => wr_pc \notin {"exited", "crashed"}

\* The loop ends only where the epoch is read or where the merkle trees are
\* parsed; the errors of write_validator_info and write_stake_pool_info are
\* logged and the loop goes on.
LoopEndsOnlyOnEpochOrPanic ==
    [][(wr_pc' \in {"exited", "crashed"} /\ wr_pc' # wr_pc) => wr_pc \in {"tick", "mev"}]_vars

(***************************************************************************)
(*              THE CRANKER'S LOOP OVER THE EPOCHS (cranker, main)         *)
(***************************************************************************)

\* The calls of update_stake_pool that are followed.
MaxCrankRuns == 2

\* The epochs the cluster advances while the loop is followed.
MaxCrankEpochAdvance == 3

\* main, not a dry run: the epoch is fetched and update_stake_pool is entered
\* with it.
CrankLoopInit ==
    /\ dry_run = FALSE
    /\ simulate = FALSE
    /\ slack_api_token = FALSE
    /\ last_update_epoch = CurEpoch - 1
    /\ cr_pc = "wait_rewards"
    /\ attempt = 1
    /\ phase = "none"
    /\ price = 0
    /\ round = 0
    /\ transactions = {}
    /\ executed_signatures = {}
    /\ send_res = <<>>
    /\ status_res = <<>>
    /\ sent = {}
    /\ ever_confirmed = {}
    /\ list_submitted = FALSE
    /\ final_submitted = FALSE
    /\ built_list = FALSE
    /\ built_final = FALSE
    /\ retry_error_round = 0
    /\ list_restarts = 0
    /\ result = "none"
    /\ slack_posted = "none"
    /\ cl_pc = "update"
    /\ cl_cluster_epoch = CurEpoch
    /\ cl_epoch = CurEpoch
    /\ cl_current_epoch = 0
    /\ cl_attempts = <<CurEpoch>>
    /\ IdleButCranker

\* The cluster enters the next epoch, while update_stake_pool runs or while
\* wait_for_next_epoch polls.
CrankClusterNewEpoch ==
    /\ cl_pc \in {"update", "waiting"}
    /\ cl_cluster_epoch < CurEpoch + MaxCrankEpochAdvance
    /\ cl_cluster_epoch' = cl_cluster_epoch + 1
    /\ UNCHANGED <<cl_pc, cl_epoch, cl_current_epoch, cl_attempts>>
    /\ UNCHANGED crankerVars
    /\ UNCHANGED otherThanCrankLoop

\* wait_for_next_epoch, entered when update_stake_pool has returned: the
\* epoch the cluster is in now becomes current_epoch.  If the fetch fails
\* through all its retries the error is returned and main's expect panics.
WaitForNextEpochBegin ==
    /\ cl_pc = "update"
    /\ cr_pc = "done"
    /\ \E fetch_ok \in BOOLEAN :
         IF fetch_ok
         THEN /\ cl_current_epoch' = cl_cluster_epoch
              /\ cl_pc' = "waiting"
         ELSE /\ cl_pc' = "crashed"
              /\ UNCHANGED cl_current_epoch
    /\ UNCHANGED <<cl_cluster_epoch, cl_epoch, cl_attempts>>
    /\ UNCHANGED crankerVars
    /\ UNCHANGED otherThanCrankLoop

\* wait_for_next_epoch: a poll sees an epoch greater than current_epoch and
\* returns it; main calls update_stake_pool with it.
WaitForNextEpochReturn ==
    /\ cl_pc = "waiting"
    /\ Len(cl_attempts) < MaxCrankRuns
    /\ cl_cluster_epoch > cl_current_epoch
    /\ cl_epoch' = cl_cluster_epoch
    /\ cl_attempts' = Append(cl_attempts, cl_cluster_epoch)
    /\ cl_pc' = "update"
    /\ last_update_epoch' \in {CurEpoch - 1, CurEpoch}
    /\ cr_pc' = "wait_rewards"
    /\ attempt' = 1
    /\ phase' = "none"
    /\ price' = 0
    /\ round' = 0
    /\ transactions' = {}
    /\ executed_signatures' = {}
    /\ send_res' = <<>>
    /\ status_res' = <<>>
    /\ sent' = {}
    /\ ever_confirmed' = {}
    /\ list_submitted' = FALSE
    /\ final_submitted' = FALSE
    /\ built_list' = FALSE
    /\ built_final' = FALSE
    /\ retry_error_round' = 0
    /\ list_restarts' = 0
    /\ result' = "none"
    /\ slack_posted' = "none"
    /\ UNCHANGED <<dry_run, simulate, slack_api_token, cl_cluster_epoch, cl_current_epoch>>
    /\ UNCHANGED otherThanCrankLoop

CrankLoopNext ==
    \/ CheckEpochRewards
    \/ StartUpdate
    \/ ListSend
    \/ ListConfirm
    \/ FinalBuild
    \/ FinalSend
    \/ PostSlack
    \/ CrankClusterNewEpoch
    \/ WaitForNextEpochBegin
    \/ WaitForNextEpochReturn

SpecCrankLoop == CrankLoopInit /\ [][CrankLoopNext]_vars

\* C28: the epochs of successive calls of update_stake_pool increase by
\* exactly one.
C28_NoEpochSkipped ==
    \A i \in 1..(Len(cl_attempts) - 1) : cl_attempts[i + 1] = cl_attempts[i] + 1

\* The epochs of successive calls increase.
AttemptEpochsIncrease ==
    \A i \in 1..(Len(cl_attempts) - 1) : cl_attempts[i + 1] > cl_attempts[i]

(***************************************************************************)
(*              RETRYING CHAIN READS (core, rpc_utils)                     *)
(***************************************************************************)

\* The number of times in a row a read may fail before it succeeds.
MaxTransientFailures == 12

\* The steps the random factor of jitter is drawn in: k / JitterSteps, k < JitterSteps.
JitterSteps == 4

MAX_RPC_RETRIES == 10
FIBONACCI_BASE_MILLIS == 200
FIBONACCI_FACTOR == 1
MAX_DELAY_MILLIS == 60000

\* FibonacciBackoff: the pair (curr, next) before the i-th call of next().
RECURSIVE FibState(_)
FibState(i) ==
    IF i = 1 THEN <<FIBONACCI_BASE_MILLIS, FIBONACCI_BASE_MILLIS>>
    ELSE LET p == FibState(i - 1) IN <<p[2], p[1] + p[2]>>

\* FibonacciBackoff::next, i-th call: curr * factor, or max_delay if that is more.
FibonacciDelay(i) ==
    LET duration == FibState(i)[1] * FIBONACCI_FACTOR
    IN  IF duration > MAX_DELAY_MILLIS THEN MAX_DELAY_MILLIS ELSE duration

\* jitter: the duration times a random factor in [0, 1), rounded up.
Jitter(duration, k) == (duration * k + JitterSteps - 1) \div JitterSteps

\* retry(): the strategy's i-th delay, None once take(MAX_RPC_RETRIES) is used up.
RetryStrategy(i, k) ==
    IF i > MAX_RPC_RETRIES THEN None ELSE Some(Jitter(FibonacciDelay(i), k))

\* A read is started that fails `failures` times before it would succeed.
RetryInit ==
    /\ fn_args \in {[call |-> "retry_get_slot", failures |-> f] :
                       f \in 0..MaxTransientFailures}
    /\ fn_result = [attempts |-> 0, retries |-> 0, delay |-> 0, outcome |-> "running"]
    /\ OthersIdleForFn

\* Retry::spawn: the read is attempted.  On an error the next delay of the
\* strategy is slept and the read is attempted again; when the strategy has
\* no delay left the error is returned.
Attempt ==
    /\ fn_args.call = "retry_get_slot"
    /\ fn_result.outcome = "running"
    /\ \E k \in 0..(JitterSteps - 1) :
         LET n == fn_result.attempts + 1
             next == RetryStrategy(fn_result.retries + 1, k)
         IN  IF n > fn_args.failures
             THEN fn_result' = [fn_result EXCEPT !.attempts = n, !.outcome = "Ok"]
             ELSE IF next = None
             THEN fn_result' = [fn_result EXCEPT !.attempts = n, !.outcome = "Err"]
             ELSE fn_result' = [fn_result EXCEPT !.attempts = n,
                                                 !.retries = fn_result.retries + 1,
                                                 !.delay = next[1]]
    /\ UNCHANGED fn_args
    /\ UNCHANGED otherThanFn

RetryNext == Attempt

SpecRetry == RetryInit /\ [][RetryNext]_vars

\* C22: a read that keeps failing is attempted at most 10 times in all, and
\* no delay between two attempts is longer than 60 s.
C22_AtMostTenAttempts ==
    /\ fn_result.attempts <= 10
    /\ fn_result.delay <= 60000

\* The read is attempted once and retried MAX_RPC_RETRIES times; no delay is
\* longer than 60 s.
OneAttemptAndTenRetries ==
    /\ fn_result.attempts <= 1 + MAX_RPC_RETRIES
    /\ fn_result.retries <= MAX_RPC_RETRIES
    /\ fn_result.delay <= 60000
    /\ fn_result.outcome = "Err" => fn_result.attempts = 1 + MAX_RPC_RETRIES

(***************************************************************************)
(* BATCHED DISTRIBUTION ACCOUNT READS (core, fetcher)                      *)
(*                                                                         *)
(* fetch_tip_distribution_accounts and                                     *)
(* fetch_priority_fee_distribution_accounts derive one distribution        *)
(* account address per vote account, read the addresses in chunks with     *)
(* get_multiple_accounts and collect the accounts that exist, are owned    *)
(* by the distribution program and deserialize.                            *)
(***************************************************************************)

\* Vote accounts handed to the fetch, and the length of one chunk (100 in
\* the source, scaled).
MaxVoteAccounts == 3
ChunkSize == 2

\* The vote accounts, numbered.
VotePubkeys == [i \in 1..MaxVoteAccounts |-> i]

FetchCalls == {"fetch_tip_distribution_accounts",
               "fetch_priority_fee_distribution_accounts"}

\* get_tip_distribution_program_id / get_priority_fee_distribution_program_id
ProgramId(call) ==
    IF call = "fetch_tip_distribution_accounts"
    THEN "tip_distribution_program"
    ELSE "priority_fee_distribution_program"

\* What get_multiple_accounts can hold for one address: no account, or an
\* account with an owner and data that deserializes to a commission or
\* does not.
ChainAccounts(call) ==
    {None} \cup {Some([owner |-> o, data |-> d]) :
                    o \in {ProgramId(call), "other_program"},
                    d \in {"commission_5", "garbage"}}

\* chunks(n): the chunk the i-th key falls in, and the number of chunks.
ChunkOf(i) == ((i - 1) \div ChunkSize) + 1

NumChunks(keys) == (Len(keys) + ChunkSize - 1) \div ChunkSize

\* The body of the loop over one chunk: nothing on an RPC error; otherwise
\* every account of the chunk that exists, has the program as its owner and
\* deserializes is inserted under its vote account.
InsertChunk(call, commission_map, keys, accounts, rpc, c) ==
    IF rpc[c] # "Ok" THEN commission_map
    ELSE LET found == {i \in 1..Len(keys) :
                          /\ ChunkOf(i) = c
                          /\ accounts[keys[i]] # None
                          /\ accounts[keys[i]][1].owner = ProgramId(call)
                          /\ accounts[keys[i]][1].data # "garbage"}
             added == [k \in {keys[i] : i \in found} |-> accounts[k][1].data]
         IN  added @@ commission_map

\* The map after the first n chunks.
RECURSIVE FetchChunks(_, _, _, _, _)
FetchChunks(call, keys, accounts, rpc, n) ==
    IF n = 0 THEN <<>>
    ELSE InsertChunk(call, FetchChunks(call, keys, accounts, rpc, n - 1),
                     keys, accounts, rpc, n)

\* The value the function returns: always Ok(commission_map).
FetchDistributionAccounts(call, keys, accounts, rpc) ==
    [outcome |-> "Ok",
     commission_map |-> FetchChunks(call, keys, accounts, rpc, NumChunks(keys))]

FetchInit ==
    /\ fn_args \in {[call |-> c, validator_vote_pubkeys |-> SubSeq(VotePubkeys, 1, n),
                     accounts |-> a, rpc |-> r] :
                       c \in FetchCalls,
                       n \in {MaxVoteAccounts},
                       a \in UNION {[{VotePubkeys[i] : i \in 1..MaxVoteAccounts}
                                        -> ChainAccounts(cc)] : cc \in FetchCalls},
                       r \in [1..((MaxVoteAccounts + ChunkSize - 1) \div ChunkSize)
                                 -> {"Ok", "Err"}]}
    /\ fn_result = [chunk |-> 0, commission_map |-> <<>>, outcome |-> "running"]
    /\ OthersIdleForFn

\* One iteration of `for chunk in validator_vote_pubkeys.chunks(..)`; after
\* the last one the function returns Ok(commission_map).
FetchChunk ==
    /\ fn_args.call \in FetchCalls
    /\ fn_result.outcome = "running"
    /\ LET c == fn_result.chunk + 1
       IN  fn_result' =
             [chunk |-> c,
              commission_map |-> InsertChunk(fn_args.call, fn_result.commission_map,
                                             fn_args.validator_vote_pubkeys,
                                             fn_args.accounts, fn_args.rpc, c),
              outcome |-> IF c = NumChunks(fn_args.validator_vote_pubkeys)
                          THEN "Ok" ELSE "running"]
    /\ UNCHANGED fn_args
    /\ UNCHANGED otherThanFn

FetchNext == FetchChunk

SpecFetch == FetchInit /\ [][FetchNext]_vars

\* The accounts as they would be if no account of chunk c existed, and the
\* RPC outcomes as they would be if the read of chunk c had succeeded.
ChunkMissing(keys, accounts, c) ==
    [k \in DOMAIN accounts |->
        IF \E i \in 1..Len(keys) : keys[i] = k /\ ChunkOf(i) = c
        THEN None ELSE accounts[k]]

ChunkRead(rpc, c) == [rpc EXCEPT ![c] = "Ok"]

\* What the function has returned.
Returned == [outcome |-> fn_result.outcome, commission_map |-> fn_result.commission_map]

\* C21: when the RPC call of a batch failed, the value the fetch returns
\* differs from the value it returns when the call succeeds and the accounts
\* of the batch do not exist.
C21_RpcErrorDistinctFromMissing ==
    fn_result.outcome = "Ok" =>
        \A c \in 1..NumChunks(fn_args.validator_vote_pubkeys) :
            fn_args.rpc[c] = "Err" =>
                Returned # FetchDistributionAccounts(
                               fn_args.call, fn_args.validator_vote_pubkeys,
                               ChunkMissing(fn_args.validator_vote_pubkeys,
                                            fn_args.accounts, c),
                               ChunkRead(fn_args.rpc, c))

\* The fetch never returns an error, and a batch whose RPC call failed
\* leaves exactly what a batch of missing accounts leaves.
FailedBatchReadsAsMissing ==
    fn_result.outcome = "Ok" =>
        \A c \in 1..NumChunks(fn_args.validator_vote_pubkeys) :
            fn_args.rpc[c] = "Err" =>
                Returned = FetchDistributionAccounts(
                               fn_args.call, fn_args.validator_vote_pubkeys,
                               ChunkMissing(fn_args.validator_vote_pubkeys,
                                            fn_args.accounts, c),
                               ChunkRead(fn_args.rpc, c))

(***************************************************************************)
(* AIRDROP MERKLE TREE CONSTRUCTION (merkle-tree, airdrop_merkle_tree)     *)
(*                                                                         *)
(* AirdropMerkleTree::new combines the tree nodes of one claimant in an    *)
(* IndexMap, hashes the combined nodes, builds the tree, attaches a proof  *)
(* to every node and validates the result.                                 *)
(***************************************************************************)

\* Longest input list, and the largest u64 (scaled).
MaxNodes == 4
U64Max == 31

Claimants == {"A", "B", "C"}
Amounts == {0, 1, 10, 11}

TreeNode(c, a) == [claimant |-> c, proof |-> None, amount |-> a]

\* Vec<TreeNode> as the callers build it: no proof yet.
TreeNodeLists ==
    UNION {[1..n -> {TreeNode(c, a) : c \in Claimants, a \in Amounts}] : n \in 0..MaxNodes}

\* A variant of the map entry in which a repeated claimant's amount is
\* replaced by the later one.
EntryOrOverwrite(tree_nodes_map, tree_node) ==
    IF \E k \in 1..Len(tree_nodes_map) : tree_nodes_map[k].claimant = tree_node.claimant
    THEN Some([k \in 1..Len(tree_nodes_map) |->
                 IF tree_nodes_map[k].claimant = tree_node.claimant
                 THEN [tree_nodes_map[k] EXCEPT !.amount = tree_node.amount]
                 ELSE tree_nodes_map[k]])
    ELSE Some(Append(tree_nodes_map, tree_node))

\* tree_nodes_map.entry(claimant).and_modify(..).or_insert_with(..): the
\* IndexMap is the sequence of its values in insertion order.  A claimant
\* already present keeps its place and has the amount added with
\* checked_add(..).unwrap(), which panics (None) past u64::MAX; a new
\* claimant is appended.
EntryAndModifyOrInsert(tree_nodes_map, tree_node) ==
    IF \E k \in 1..Len(tree_nodes_map) : tree_nodes_map[k].claimant = tree_node.claimant
    THEN LET k == CHOOSE k \in 1..Len(tree_nodes_map) :
                      tree_nodes_map[k].claimant = tree_node.claimant
             sum == tree_nodes_map[k].amount + tree_node.amount
         IN  IF sum > U64Max THEN None
             ELSE Some([tree_nodes_map EXCEPT ![k].amount = sum])
    ELSE Some(Append(tree_nodes_map, tree_node))

\* The loop over the input: the map after the first n nodes, None after a
\* panic.
RECURSIVE CombineNodes(_, _)
CombineNodes(tree_nodes, n) ==
    IF n = 0 THEN Some(<<>>)
    ELSE LET tree_nodes_map == CombineNodes(tree_nodes, n - 1)
         IN  IF tree_nodes_map = None THEN None
             ELSE EntryAndModifyOrInsert(tree_nodes_map[1], tree_nodes[n])

\* TreeNode::hash: a digest of the claimant and the amount.
NodeHash(tree_node) == <<"H", tree_node.claimant, tree_node.amount>>

\* MerkleTree::new(..).get_root(): a digest of the leaves in order, none for
\* an empty tree.
GetRoot(hashed_nodes) ==
    IF Len(hashed_nodes) = 0 THEN None ELSE Some(<<"root", hashed_nodes>>)

\* get_proof(&tree, i): the path of leaf i in the tree of these leaves.
GetProof(hashed_nodes, i) == <<"proof", i, hashed_nodes>>

\* verify(proof, root, leaf): the proof is the path of this leaf in the tree
\* with this root.
Verify(proof, root, hashed_nodes, i) ==
    /\ proof = GetProof(hashed_nodes, i)
    /\ Some(root) = GetRoot(hashed_nodes)

\* get_max_total_claim: the checked sum of the amounts, None on overflow.
RECURSIVE GetMaxTotalClaim(_, _)
GetMaxTotalClaim(nodes, n) ==
    IF n = 0 THEN Some(0)
    ELSE LET acc == GetMaxTotalClaim(nodes, n - 1)
         IN  IF acc = None \/ acc[1] + nodes[n].amount > U64Max THEN None
             ELSE Some(acc[1] + nodes[n].amount)

\* AirdropMerkleTree::validate
Validate(tree) ==
    LET hashed_nodes == [k \in 1..Len(tree.tree_nodes) |-> NodeHash(tree.tree_nodes[k])]
        sum == GetMaxTotalClaim(tree.tree_nodes, Len(tree.tree_nodes))
    IN  /\ Len(tree.tree_nodes) = tree.max_num_nodes
        /\ Cardinality({tree.tree_nodes[k].claimant : k \in 1..Len(tree.tree_nodes)})
               = Len(tree.tree_nodes)
        /\ sum = Some(tree.max_total_claim)
        /\ GetRoot(hashed_nodes) = Some(tree.merkle_root)
        /\ \A k \in 1..Len(hashed_nodes) :
               Verify(GetProof(hashed_nodes, k), tree.merkle_root, hashed_nodes, k)

\* AirdropMerkleTree::new
AirdropMerkleTreeNew(input) ==
    LET combined == CombineNodes(input, Len(input))
    IN  IF combined = None THEN [outcome |-> "panic"]
        ELSE LET hashed_nodes == [k \in 1..Len(combined[1]) |-> NodeHash(combined[1][k])]
                 tree_nodes == [k \in 1..Len(combined[1]) |->
                                  [combined[1][k] EXCEPT
                                      !.proof = Some(GetProof(hashed_nodes, k))]]
                 max_total_claim == GetMaxTotalClaim(tree_nodes, Len(tree_nodes))
                 root == GetRoot(hashed_nodes)
             IN  IF max_total_claim = None THEN [outcome |-> "panic"]
                 ELSE IF root = None THEN [outcome |-> "MerkleRootError"]
                 ELSE LET tree == [merkle_root |-> root[1],
                                   max_num_nodes |-> Len(tree_nodes),
                                   max_total_claim |-> max_total_claim[1],
                                   tree_nodes |-> tree_nodes]
                      IN  IF Validate(tree)
                          THEN [outcome |-> "Ok", tree |-> tree]
                          ELSE [outcome |-> "MerkleValidationError"]

MerkleInit ==
    /\ fn_args \in {[call |-> "AirdropMerkleTree::new", tree_nodes |-> l] :
                       l \in TreeNodeLists}
    /\ fn_result = None
    /\ OthersIdleForFn

CallAirdropMerkleTreeNew ==
    /\ fn_args.call = "AirdropMerkleTree::new"
    /\ fn_result = None
    /\ fn_result' = Some(AirdropMerkleTreeNew(fn_args.tree_nodes))
    /\ UNCHANGED fn_args
    /\ UNCHANGED otherThanFn

MerkleNext == CallAirdropMerkleTreeNew

SpecMerkle == MerkleInit /\ [][MerkleNext]_vars

\* The positions of the input at which a claimant occurs for the first
\* time, and the number of such positions up to i.
FirstOccurrences(input) ==
    {i \in 1..Len(input) : \A j \in 1..(i - 1) : input[j].claimant # input[i].claimant}

RankOf(input, i) == Cardinality({j \in FirstOccurrences(input) : j <= i})

\* The sum of the amounts the input holds for a claimant.
RECURSIVE AmountOf(_, _, _)
AmountOf(input, c, n) ==
    IF n = 0 THEN 0
    ELSE AmountOf(input, c, n - 1) + (IF input[n].claimant = c THEN input[n].amount ELSE 0)

ExampleInput ==
    <<TreeNode("A", 10), TreeNode("B", 1), TreeNode("A", 11), TreeNode("C", 0)>>

\* C23: a tree that is built holds one node per claimant of the input, at
\* the rank of the claimant's first occurrence, with the sum of the
\* claimant's amounts; max_num_nodes is the number of claimants and
\* max_total_claim the sum of all amounts.  The input
\* [(A,10),(B,1),(A,11),(C,0)] gives [(A,21),(B,1),(C,0)], 3 and 22.
C23_DedupByClaimant ==
    (fn_args # <<>> /\ fn_args.call = "AirdropMerkleTree::new" /\ fn_result # None) =>
        LET input == fn_args.tree_nodes
            run == fn_result[1]
        IN  /\ run.outcome = "Ok" =>
                 /\ Len(run.tree.tree_nodes) = Cardinality(FirstOccurrences(input))
                 /\ \A i \in FirstOccurrences(input) :
                      LET node == run.tree.tree_nodes[RankOf(input, i)]
                      IN  /\ node.claimant = input[i].claimant
                          /\ node.amount = AmountOf(input, input[i].claimant, Len(input))
                 /\ run.tree.max_num_nodes = Cardinality(FirstOccurrences(input))
                 /\ run.tree.max_total_claim =
                        AmountOf(input, "A", Len(input)) + AmountOf(input, "B", Len(input))
                            + AmountOf(input, "C", Len(input))
            /\ input = ExampleInput =>
                 /\ run.outcome = "Ok"
                 /\ [k \in 1..Len(run.tree.tree_nodes) |->
                        <<run.tree.tree_nodes[k].claimant, run.tree.tree_nodes[k].amount>>]
                      = <<<<"A", 21>>, <<"B", 1>>, <<"C", 0>>>>
                 /\ run.tree.max_num_nodes = 3
                 /\ run.tree.max_total_claim = 22

\* The example input has been built into a tree.
C23_Witness ==
    /\ fn_args # <<>>
    /\ fn_args.call = "AirdropMerkleTree::new"
    /\ fn_args.tree_nodes = ExampleInput
    /\ fn_result # None
    /\ fn_result[1].outcome = "Ok"
    /\ Len(fn_result[1].tree.tree_nodes) = 3

\* Construction panics exactly when the amounts of the input add up to more
\* than u64::MAX, returns MerkleRootError exactly for an empty input and
\* never fails its own validation.
ConstructionOutcomes ==
    (fn_args # <<>> /\ fn_args.call = "AirdropMerkleTree::new" /\ fn_result # None) =>
        LET input == fn_args.tree_nodes
            total == AmountOf(input, "A", Len(input)) + AmountOf(input, "B", Len(input))
                         + AmountOf(input, "C", Len(input))
        IN  /\ fn_result[1].outcome = "panic" <=> total > U64Max
            /\ fn_result[1].outcome = "MerkleRootError" <=> Len(input) = 0
            /\ fn_result[1].outcome # "MerkleValidationError"

(***************************************************************************)
(* MOVING AVERAGE APY (core, db_models/stake_pool_stats)                   *)
(*                                                                         *)
(* StakePoolStatsStore::aggregate reads one record per day, oldest first,  *)
(* and hands them to calculate_moving_avg_apy with num_epochs = 10.        *)
(***************************************************************************)

\* Most distinct epochs among the records, and most epochs whose APY is
\* high.
MaxDistinctEpochs == 12
MaxHighEpochs == 2

\* num_epochs as aggregate passes it.
NUM_EPOCHS == 10

\* APY values (scaled so that every mean is a whole number).
ApyLow == 0
ApyHigh == 60
ApySecondDay == 120

StakePoolStats(e, a) == [epoch |-> e, apy |-> a]

\* The records of n consecutive epochs (with epoch numbers skipping one
\* after `gap`), one per epoch and a second one for epoch `twice`; the
\* epochs in `high` have the high APY.
DocsOf(n, gap, twice, high) ==
    LET epochOf(k) == IF gap > 0 /\ k > gap THEN k + 1 ELSE k
        first(k) == StakePoolStats(epochOf(k), IF k \in high THEN ApyHigh ELSE ApyLow)
        len == IF twice \in 1..n THEN n + 1 ELSE n
    IN  [j \in 1..len |->
            IF twice \in 1..n /\ j = twice + 1
            THEN StakePoolStats(epochOf(twice), ApySecondDay)
            ELSE IF twice \in 1..n /\ j > twice + 1 THEN first(j - 1) ELSE first(j)]

DocLists ==
    {DocsOf(n, gap, twice, high) :
        n \in 0..MaxDistinctEpochs, gap \in {0, 5}, twice \in {0, 3, 10, 11},
        high \in {h \in SUBSET (1..MaxDistinctEpochs) : Cardinality(h) <= MaxHighEpochs}}

\* epoch_apy_avgs after the division: the mean APY of the records of an
\* epoch.
RECURSIVE TotalApy(_, _, _)
TotalApy(docs, e, n) ==
    IF n = 0 THEN 0
    ELSE TotalApy(docs, e, n - 1) + (IF docs[n].epoch = e THEN docs[n].apy ELSE 0)

EpochCount(docs, e) == Cardinality({j \in 1..Len(docs) : docs[j].epoch = e})

EpochApyAvg(docs, e) == TotalApy(docs, e, Len(docs)) \div EpochCount(docs, e)

\* sorted_epochs after sort() and dedup(), positions counted from 1.
RECURSIVE SortedSeq(_)
SortedSeq(S) ==
    IF S = {} THEN <<>>
    ELSE LET m == CHOOSE x \in S : \A y \in S : x <= y
         IN  <<m>> \o SortedSeq(S \ {m})

SortedEpochs(docs) == SortedSeq({docs[j].epoch : j \in 1..Len(docs)})

RECURSIVE SumAvgs(_, _, _, _)
SumAvgs(docs, sorted_epochs, from, to) ==
    IF from > to THEN 0
    ELSE EpochApyAvg(docs, sorted_epochs[from])
             + SumAvgs(docs, sorted_epochs, from + 1, to)

\* moving_average_apy: `for epoch in num_epochs..sorted_epochs.len()` walks
\* the positions num_epochs .. len - 1 counted from 0, that is
\* num_epochs + 1 .. len counted from 1, and averages the num_epochs
\* positions that end at each.
MovingAverageApy(docs, num_epochs) ==
    LET sorted_epochs == SortedEpochs(docs)
    IN  [e \in {sorted_epochs[p] : p \in (num_epochs + 1)..Len(sorted_epochs)} |->
            LET p == CHOOSE p \in (num_epochs + 1)..Len(sorted_epochs) : sorted_epochs[p] = e
            IN  SumAvgs(docs, sorted_epochs, p - num_epochs + 1, p) \div num_epochs]

\* calculate_moving_avg_apy
CalculateMovingAvgApy(docs, num_epochs) ==
    IF num_epochs = 0 THEN [outcome |-> "NumEpochsZero"]
    ELSE IF Len(docs) = 0 THEN [outcome |-> "EmptyDocs"]
    ELSE LET moving_average_apy == MovingAverageApy(docs, num_epochs)
         IN  [outcome |-> "Ok",
              docs |-> [j \in 1..Len(docs) |->
                          IF docs[j].epoch \in DOMAIN moving_average_apy
                          THEN [docs[j] EXCEPT !.apy = moving_average_apy[docs[j].epoch]]
                          ELSE docs[j]]]

ApyInit ==
    /\ fn_args \in {[call |-> "calculate_moving_avg_apy", docs |-> l,
                     num_epochs |-> NUM_EPOCHS] : l \in DocLists}
    /\ fn_result = None
    /\ OthersIdleForFn

CallCalculateMovingAvgApy ==
    /\ fn_args.call = "calculate_moving_avg_apy"
    /\ fn_result = None
    /\ fn_result' = Some(CalculateMovingAvgApy(fn_args.docs, fn_args.num_epochs))
    /\ UNCHANGED fn_args
    /\ UNCHANGED otherThanFn

ApyNext == CallCalculateMovingAvgApy

SpecApy == ApyInit /\ [][ApyNext]_vars

\* The distinct epochs of the records up to and including epoch e, and the
\* mean of the per-epoch mean APY over the latest 10 of them.
EpochsUpTo(docs, e) == {docs[j].epoch : j \in 1..Len(docs)} \cap (0..e)

LatestTen(docs, e) ==
    {x \in EpochsUpTo(docs, e) :
        Cardinality({y \in EpochsUpTo(docs, e) : y > x}) < 10}

RECURSIVE SumOfMeans(_, _)
SumOfMeans(docs, S) ==
    IF S = {} THEN 0
    ELSE LET x == CHOOSE x \in S : TRUE
         IN  EpochApyAvg(docs, x) + SumOfMeans(docs, S \ {x})

MeanOfLatestTen(docs, e) == SumOfMeans(docs, LatestTen(docs, e)) \div 10

\* C24: in the records returned, every record with at least 10 distinct
\* epochs up to and including its own carries the mean of the per-epoch mean
\* APY over the latest 10 of those epochs, and every other record carries
\* its own apy.
C24_MovingAverageFromTenEpochs ==
    (fn_args # <<>> /\ fn_args.call = "calculate_moving_avg_apy"
        /\ fn_result # None /\ fn_result[1].outcome = "Ok") =>
        \A j \in 1..Len(fn_args.docs) :
            LET own == fn_args.docs[j]
            IN  fn_result[1].docs[j].apy =
                    IF Cardinality(EpochsUpTo(fn_args.docs, own.epoch)) >= 10
                    THEN MeanOfLatestTen(fn_args.docs, own.epoch)
                    ELSE own.apy

\* Records are replaced from the eleventh distinct epoch on: a record with
\* more than 10 distinct epochs up to and including its own carries the
\* mean over the latest 10, and a record with 10 or fewer carries its own
\* apy.
ReplacedFromEleventhEpoch ==
    (fn_args # <<>> /\ fn_args.call = "calculate_moving_avg_apy"
        /\ fn_result # None /\ fn_result[1].outcome = "Ok") =>
        \A j \in 1..Len(fn_args.docs) :
            LET own == fn_args.docs[j]
            IN  /\ fn_result[1].docs[j].epoch = own.epoch
                /\ fn_result[1].docs[j].apy =
                       IF Cardinality(EpochsUpTo(fn_args.docs, own.epoch)) > 10
                       THEN MeanOfLatestTen(fn_args.docs, own.epoch)
                       ELSE own.apy

=============================================================================
